---- MODULE Spec2Model ----
(***************************************************************************)
(* A model of nanobot's background subagents: SubagentManager (spawn, the  *)
(* tool-calling conversation loop of _run_subagent, _announce_result), the *)
(* SpawnTool in front of it, and the provider routers the loop talks to.   *)
(*                                                                         *)
(* asyncio runs everything on one thread: the code between two awaits is   *)
(* one atomic step.  Every action below is one such step of one coroutine, *)
(* or one callback of the event loop.                                      *)
(***************************************************************************)
EXTENDS Integers, Sequences, FiniteSets, TLC

\* Python's None.
None == "None"

\* Python's None where a list or a text is expected.  A text (a Python str the
\* program takes apart, formats or tests for emptiness) is the sequence of its
\* fragments: "opencode/kimi-k2.5" is <<"opencode", "/", "kimi", "-k2.5">>, ""
\* is <<>>, and f"Error: {e}" is <<"Error: ">> \o str(e).
NoneList == <<None>>
\* Python's None where a dict is expected, and where a list of dicts is expected.
NoneDict == [none |-> TRUE]
NoneRecords == <<NoneDict>>

\* Python truthiness of an optional string: None and "" are falsy.
TruthyStr(s) == s # None /\ s # ""
\* Python truthiness of an optional list or text: None and the empty one are falsy.
TruthyList(l) == l # NoneList /\ l # <<>>

(***************************************************************************)
(* Bounds of the model.                                                    *)
(***************************************************************************)
\* How many provider objects are constructed one after another in one run.
MaxRouters == 2
\* How many times spawn is called in one run.
MaxSpawns == 2
\* How many distinct values str(uuid.uuid4())[:8] takes (16^8 in the program).
NumIds == 2
\* The longest tool_calls list the provider returns in one response.
MaxCalls == 2
\* The turns (counted from the first) in which the provider's response is
\* drawn from the full response set; later turns draw from a reduced set.
RichTurns == 1
\* When several tasks run concurrently, the turns in which the provider still
\* answers with tool calls (a single task is followed through all its turns).
ShallowTurns == 1

(***************************************************************************)
(* Program constants.                                                      *)
(***************************************************************************)
\* subagent.py:107
max_iterations == 15
\* subagent.py:69: the label is the first 30 characters of the task.
LabelLen == 30

\* subagent.py:149
Placeholder == <<"Task completed but no final response generated.">>

\* spawn.py:12-15
AVAILABLE_SUBAGENT_TOOLS ==
    <<"read_file", "write_file", "list_dir", "exec_shell", "web_search",
      "web_fetch", "browser">>

Range(s) == {s[i] : i \in 1..Len(s)}

\* A dict as a function on its keys.
EmptyDict == [k \in {} |-> None]
\* d[k] = v
DictSet(d, k, v) == [x \in DOMAIN d \cup {k} |-> IF x = k THEN v ELSE d[x]]
\* d.pop(k, None)
DictPop(d, k) == [x \in DOMAIN d \ {k} |-> d[x]]

IsPrefix(s, t) == Len(s) <= Len(t) /\ SubSeq(t, 1, Len(s)) = s

(***************************************************************************)
(* Inputs.                                                                 *)
(***************************************************************************)
Execs == 1..MaxSpawns
TaskIds == 1..NumIds

\* A task text is a sequence of characters (so that task[:30] is computed).
ShortTask == <<"g", "o">>
LongTask == [i \in 1..(LabelLen + 1) |-> "w"]

\* provider.get_default_model()
ProviderDefaultModel == <<"anthropic", "/", "claude-opus-4-5">>

\* The (channel, chat_id) pairs a caller may name as origin.
Origins == {<<"cli", "direct">>, <<"telegram", "42">>}

\* The arguments of a spawn request (task, label, model, system_prompt, tools).
SpawnRequests ==
    { [task |-> ShortTask, label |-> NoneList, model |-> NoneList,
       system_prompt |-> None, tools |-> NoneList],
      [task |-> LongTask, label |-> NoneList, model |-> <<"kimi", "-k2.5">>,
       system_prompt |-> "custom prompt", tools |-> <<"read_file">>],
      [task |-> ShortTask, label |-> <<"l", "b", "l">>, model |-> NoneList,
       system_prompt |-> None, tools |-> <<"read_file", "teleport">>],
      [task |-> ShortTask, label |-> NoneList, model |-> NoneList,
       system_prompt |-> None, tools |-> <<>>] }

\* The exceptions the collaborators of _run_subagent may raise, and str(e).
Exceptions == {"build_tools", "chat", "tool", "publish"}
str_exc(exc) ==
    CASE exc = "build_tools" -> <<"tool construction failed">>
      [] exc = "chat" -> <<"provider raised">>
      [] exc = "tool" -> <<"tool raised">>
      [] exc = "publish" -> <<>>
\* f"Error: {e}"
ExcText(exc) == <<"Error: ">> \o str_exc(exc)

(***************************************************************************)
(* What the provider (LLMProvider.chat) may answer.  A ToolCallRequest is  *)
(* [id, name, arguments]; an LLMResponse is [content, tool_calls,          *)
(* finish_reason].                                                         *)
(***************************************************************************)
\* JSON texts and the Python values they encode: json.loads takes a text to
\* its value, json.dumps a value to its text.  A value is [type, value].
JsonPairs ==
    { <<"{\"path\": \"a\"}",     [type |-> "dict", value |-> [path |-> "a"]]>>,
      <<"{\"command\": \"ls\"}", [type |-> "dict", value |-> [command |-> "ls"]]>>,
      <<"{\"url\": \"u\"}",      [type |-> "dict", value |-> [url |-> "u"]]>>,
      <<"{\"path\": \"d\"}",     [type |-> "dict", value |-> [path |-> "d"]]>>,
      <<"{}",                    [type |-> "dict", value |-> EmptyDict]>>,
      <<"[1, 2]",                [type |-> "list", value |-> <<1, 2>>]>>,
      <<"7",                     [type |-> "int", value |-> 7]>> }

\* json.dumps(v): a str.
json_dumps(v) ==
    [type |-> "str", text |-> (CHOOSE p \in JsonPairs : p[2] = v)[1]]

\* A text is valid JSON.
IsJson(text) == \E p \in JsonPairs : p[1] = text
\* json.loads(text) of valid JSON.
json_loads(text) == (CHOOSE p \in JsonPairs : p[1] = text)[2]

ToolCallRequest(id, name, arguments) ==
    [id |-> id, name |-> name, arguments |-> arguments]

AllCalls ==
    << ToolCallRequest("call_1", "read_file",  json_loads("{\"path\": \"a\"}")),
       ToolCallRequest("call_2", "exec_shell", json_loads("{\"command\": \"ls\"}")),
       ToolCallRequest("call_3", "web_fetch",  json_loads("{\"url\": \"u\"}")),
       ToolCallRequest("call_4", "list_dir",   json_loads("{\"path\": \"d\"}")) >>

\* usage = {}
NoUsage == EmptyDict

LLMResponse(content, tool_calls, finish_reason, usage) ==
    [content |-> content, tool_calls |-> tool_calls,
     finish_reason |-> finish_reason, usage |-> usage]

\* Responses without tool calls: text, empty text, null, and the error shape
\* the routers build from a transport failure.
FinalResponses ==
    { LLMResponse(c, <<>>, "stop", NoUsage) : c \in {<<"final answer">>, <<>>, NoneList} }
    \cup { LLMResponse(<<"Error calling LLM: ", "connection refused">>, <<>>,
                       "error", NoUsage) }

\* Responses with tool calls, as offered in turn number i (from 0).
ToolResponses(i) ==
    IF i < RichTurns
    THEN { LLMResponse(IF n % 2 = 0 THEN <<"thinking">> ELSE NoneList,
                       SubSeq(AllCalls, 1, n), "tool_calls", NoUsage) :
             n \in 1..MaxCalls }
    ELSE { LLMResponse(NoneList, SubSeq(AllCalls, 1, 1), "tool_calls", NoUsage) }

\* base.py (not in src/): has_tool_calls is true iff tool_calls is non-empty.
has_tool_calls(response) == Len(response.tool_calls) > 0

\* What tools.execute(name, arguments) may return.
ToolResults == {<<"tool output">>}

(***************************************************************************)
(* State.                                                                  *)
(***************************************************************************)
VARIABLES
    deep,          \* the run follows one task in depth (else: concurrent tasks)
    running,       \* SubagentManager._running_tasks: task_id -> background task
    nspawned,      \* how many background tasks asyncio.create_task has made
    ack,           \* what the last spawn / SpawnTool.execute returned
    ctx,           \* SpawnTool._origin_channel, SpawnTool._origin_chat_id
    bus,           \* the messages published on the bus, in order
    pc,            \* per background task: where its coroutine is suspended
    cfg,           \* per task: the arguments of _run_subagent
    registry,      \* per task: the tool names in its ToolRegistry
    messages,      \* per task: the transcript (local `messages`)
    iter,          \* per task: completed iterations of the for loop
    calls,         \* per task: response.tool_calls being executed
    tcidx,         \* per task: index in calls of the call being awaited
    final_result,  \* per task: local `final_result`
    ann,           \* per task: (result, status) of _announce_result in flight
    nchat,         \* per task: how many times provider.chat was called
    sent,          \* per task: the message list given to the last provider.chat
    hist,          \* per task: the responses provider.chat returned so far
    executed,      \* per task: ids of the tool calls executed, in order
    attempts,      \* per task: status of each bus publish invoked
    escaped,       \* per task: an exception left the background task
    router,        \* the provider object under study, once constructed
    request,       \* what its last chat call gave to the transport
    outcome,       \* what its last call (constructor or chat) returned or raised
    environ,       \* os.environ
    litellm_api_base,  \* the module attribute litellm.api_base
    transport,     \* what the transport did with the last request
    nrouters,      \* how many provider constructors have been called
    call,          \* the arguments of the last chat call on the provider
    secrets_json,  \* the file at SecretsTool.secrets_path
    asked,         \* the arguments of the last SecretsTool.execute
    reply          \* what the last SecretsTool.execute returned or raised

provVars == <<router, request, outcome, environ, litellm_api_base, transport, nrouters,
              call>>
toolVars == <<secrets_json, asked, reply>>
mgrVars == <<deep, provVars, toolVars, running, nspawned, ack, ctx, bus>>
taskVars == <<pc, cfg, registry, messages, iter, calls, tcidx, final_result, ann>>
logVars == <<nchat, sent, hist, executed, attempts, escaped>>
vars == <<mgrVars, taskVars, logVars>>

NoCfg == [task_id |-> 0, task |-> <<>>, label |-> <<>>, config |-> [none |-> TRUE]]
NoAnn == [result |-> NoneList, status |-> None]
NoAck == [kind |-> "none"]
NoRouter == [kind |-> "none"]
NoRequest == [path |-> "none"]
NoOutcome == [kind |-> "none"]
NoTransport == [did |-> "nothing"]
NoCall == [made |-> FALSE]
NoFile == [exists |-> FALSE, text |-> <<>>]
NoAsked == [action |-> "none", key |-> None, value |-> None]
NoReply == [kind |-> "none"]

\* The manager, no task spawned yet.
ManagerInit ==
    /\ running = EmptyDict
    /\ nspawned = 0
    /\ ack = NoAck
    /\ ctx = <<"cli", "direct">>
    /\ bus = <<>>
    /\ pc = [e \in Execs |-> "none"]
    /\ cfg = [e \in Execs |-> NoCfg]
    /\ registry = [e \in Execs |-> {}]
    /\ messages = [e \in Execs |-> <<>>]
    /\ iter = [e \in Execs |-> 0]
    /\ calls = [e \in Execs |-> <<>>]
    /\ tcidx = [e \in Execs |-> 0]
    /\ final_result = [e \in Execs |-> NoneList]
    /\ ann = [e \in Execs |-> NoAnn]
    /\ nchat = [e \in Execs |-> 0]
    /\ sent = [e \in Execs |-> <<>>]
    /\ hist = [e \in Execs |-> <<>>]
    /\ executed = [e \in Execs |-> <<>>]
    /\ attempts = [e \in Execs |-> <<>>]
    /\ escaped = [e \in Execs |-> FALSE]

\* The secrets tool has not been called, and there is no secrets file.
NoSecrets ==
    /\ secrets_json = NoFile
    /\ asked = NoAsked
    /\ reply = NoReply

\* No provider object under study.
NoProvider ==
    /\ router = NoRouter
    /\ request = NoRequest
    /\ outcome = NoOutcome
    /\ environ = EmptyDict
    /\ litellm_api_base = NoneList
    /\ transport = NoTransport
    /\ nrouters = 0
    /\ call = NoCall

Init ==
    /\ deep \in BOOLEAN
    /\ ManagerInit
    /\ NoProvider
    /\ NoSecrets


(***************************************************************************)
(* SubagentManager: helpers.                                               *)
(***************************************************************************)
Min(a, b) == IF a < b THEN a ELSE b

\* SubagentManager.workspace
Workspace == "/workspace"

\* label or task[:30] + ("..." if len(task) > 30 else "")
display_label(label, task) ==
    IF TruthyList(label)
    THEN label
    ELSE SubSeq(task, 1, Min(LabelLen, Len(task)))
         \o (IF Len(task) > LabelLen THEN <<".", ".", ".">> ELSE <<>>)

_build_default_prompt(task) ==
    [text |-> "# Subagent", task |-> task, workspace |-> Workspace]

\* config.get("system_prompt") or self._build_default_prompt(task)
SystemPrompt(system_prompt, task) ==
    IF TruthyStr(system_prompt)
    THEN [text |-> system_prompt]
    ELSE _build_default_prompt(task)

\* The keys of all_tools.
all_tools ==
    <<"read_file", "write_file", "list_dir", "exec_shell", "web_search",
      "web_fetch", "browser">>

\* Faulty variant of _build_tools: every name of the allowlist is registered.
_build_tools_unfiltered(tool_names) ==
    LET names_to_use == IF TruthyList(tool_names) THEN tool_names ELSE all_tools
    IN  Range(names_to_use)

\* The names registered in the ToolRegistry built for an allowlist.
_build_tools(tool_names) ==
    LET names_to_use == IF TruthyList(tool_names) THEN tool_names ELSE all_tools
    IN  {names_to_use[i] : i \in {j \in 1..Len(names_to_use) :
                                      names_to_use[j] \in Range(all_tools)}}

\* Faulty variant of InboundMessage: the chat_id is read from the spawn
\* tool's context at the time of the announcement.
InboundMessage_current_context(label, task, result, origin, status) ==
    [channel |-> "system",
     sender_id |-> "subagent",
     chat_id |-> <<ctx[1], ":", ctx[2]>>,
     content |-> [label |-> label,
                  status_text |-> IF status = "ok" THEN "completed" ELSE "failed",
                  task |-> task,
                  result |-> result]]

\* The InboundMessage _announce_result builds.
InboundMessage(label, task, result, origin, status) ==
    [channel |-> "system",
     sender_id |-> "subagent",
     chat_id |-> <<origin.channel, ":", origin.chat_id>>,
     content |-> [label |-> label,
                  status_text |-> IF status = "ok" THEN "completed" ELSE "failed",
                  task |-> task,
                  result |-> result]]

\* The first two messages of the transcript.
SeedMessages(e) ==
    << [role |-> "system",
        content |-> SystemPrompt(cfg[e].config.system_prompt, cfg[e].task)],
       [role |-> "user", content |-> cfg[e].task] >>

tool_call_dict(tc) ==
    [id |-> tc.id, type |-> "function",
     function |-> [name |-> tc.name, arguments |-> json_dumps(tc.arguments)]]

AssistantMessage(response) ==
    [role |-> "assistant",
     content |-> IF TruthyList(response.content) THEN response.content ELSE <<>>,
     tool_calls |-> [i \in 1..Len(response.tool_calls) |->
                        tool_call_dict(response.tool_calls[i])]]

ToolMessage(tc, result) ==
    [role |-> "tool", tool_call_id |-> tc.id, name |-> tc.name, content |-> result]


(***************************************************************************)
(* SubagentManager.spawn, SpawnTool.                                       *)
(***************************************************************************)
\* The spawns one run makes.
SpawnCap == IF deep THEN 1 ELSE MaxSpawns

\* manager.default_model = model or provider.get_default_model()
default_model == ProviderDefaultModel

\* Faulty variant of spawn: it awaits the coroutine instead of scheduling it, so
\* the first stretch of _run_subagent has run when spawn returns.
spawn_awaits(task, label, model, system_prompt, tools, origin_channel, origin_chat_id) ==
    /\ nspawned < SpawnCap
    /\ \E task_id \in TaskIds :
         LET e == nspawned + 1
             lbl == display_label(label, task)
             config == [model |-> IF TruthyList(model) THEN model ELSE default_model,
                        system_prompt |-> system_prompt,
                        tools |-> tools,
                        origin |-> [channel |-> origin_channel,
                                    chat_id |-> origin_chat_id]]
             seed == << [role |-> "system",
                         content |-> SystemPrompt(system_prompt, task)],
                        [role |-> "user", content |-> task] >>
         IN  /\ nspawned' = e
             /\ cfg' = [cfg EXCEPT ![e] = [task_id |-> task_id, task |-> task,
                                          label |-> lbl, config |-> config]]
             /\ registry' = [registry EXCEPT ![e] = _build_tools(tools)]
             /\ messages' = [messages EXCEPT ![e] = seed]
             /\ pc' = [pc EXCEPT ![e] = "chat"]
             /\ nchat' = [nchat EXCEPT ![e] = 1]
             /\ sent' = [sent EXCEPT ![e] = seed]
             /\ running' = DictSet(running, task_id, e)
             /\ ack' = [kind |-> "started", label |-> lbl, id |-> task_id]
    /\ UNCHANGED <<deep, provVars, toolVars, ctx, bus, iter, calls, tcidx, final_result, ann, hist,
                   executed, attempts, escaped>>

\* The objects a running task works on, each named by the place that made it
\* and, when that place is run once per task, by the task that ran it.
\* Faulty variant of RegistryOf: one registry is built for the manager.
RegistryOf_of_manager(e) == [made_at |-> "ToolRegistry()", by |-> 0]

\* registry = ToolRegistry(), in the call of _build_tools task e makes.
RegistryOf(e) == [made_at |-> "ToolRegistry()", by |-> e]

\* messages = [...], a list made in the frame of task e.
TranscriptOf(e) == [made_at |-> "messages", by |-> e]

\* self.provider, given to the manager when it is constructed.
ProviderOf(e) == [made_at |-> "SubagentManager.provider", by |-> 0]

\* self.bus, given to the manager when it is constructed.
BusOf(e) == [made_at |-> "SubagentManager.bus", by |-> 0]

\* SubagentManager.spawn: no await in its body, so it is one step.  task_id is
\* whatever str(uuid.uuid4())[:8] gives.
spawn(task, label, model, system_prompt, tools, origin_channel, origin_chat_id) ==
    /\ nspawned < SpawnCap
    /\ \E task_id \in TaskIds :
         LET e == nspawned + 1
             lbl == display_label(label, task)
             config == [model |-> IF TruthyList(model) THEN model ELSE default_model,
                        system_prompt |-> system_prompt,
                        tools |-> tools,
                        origin |-> [channel |-> origin_channel,
                                    chat_id |-> origin_chat_id]]
         IN  /\ nspawned' = e
             /\ cfg' = [cfg EXCEPT ![e] = [task_id |-> task_id, task |-> task,
                                          label |-> lbl, config |-> config]]
             /\ pc' = [pc EXCEPT ![e] = "created"]
             /\ running' = DictSet(running, task_id, e)
             /\ ack' = [kind |-> "started", label |-> lbl, id |-> task_id]
    /\ UNCHANGED <<deep, provVars, toolVars, ctx, bus, registry, messages, iter, calls, tcidx,
                   final_result, ann, logVars>>

\* SpawnTool.set_context
set_context(channel, chat_id) ==
    /\ ctx' = <<channel, chat_id>>
    /\ UNCHANGED <<deep, provVars, toolVars, running, nspawned, ack, bus, taskVars, logVars>>

\* Faulty variant of execute: the tools list is handed to spawn unvalidated.
execute_unvalidated(task, label, model, system_prompt, tools) ==
    spawn(task, label, model, system_prompt, tools, ctx[1], ctx[2])

\* SpawnTool.execute
execute(task, label, model, system_prompt, tools) ==
    LET invalid == IF TruthyList(tools)
                   THEN SelectSeq(tools, LAMBDA t : t \notin Range(AVAILABLE_SUBAGENT_TOOLS))
                   ELSE <<>>
    IN  IF invalid # <<>>
        THEN /\ ack' = [kind |-> "invalid_tools", invalid |-> invalid]
             /\ UNCHANGED <<deep, provVars, toolVars, running, nspawned, ctx, bus, taskVars, logVars>>
        ELSE spawn(task, label, model, system_prompt, tools, ctx[1], ctx[2])

(***************************************************************************)
(* SubagentManager._run_subagent: one action per stretch of code between   *)
(* two awaits.                                                             *)
(***************************************************************************)
\* What the provider may answer to task e's pending chat call.
Offered(e) ==
    FinalResponses
    \cup (IF deep \/ iter[e] < ShallowTurns THEN ToolResponses(iter[e]) ELSE {})

\* await self._announce_result(..., result, origin, status): the message is
\* built and bus.publish_inbound is awaited.
_announce_result(e, result, status) ==
    /\ ann' = [ann EXCEPT ![e] = [result |-> result, status |-> status]]
    /\ attempts' = [attempts EXCEPT ![e] = Append(@, status)]
    /\ pc' = [pc EXCEPT ![e] = IF status = "ok" THEN "announce_ok" ELSE "announce_error"]

\* except Exception as e: announce f"Error: {e}" with status "error".
HandleException(e, exc) == _announce_result(e, ExcText(exc), "error")

\* await self.provider.chat(messages=msgs, ...)
CallProvider(e, msgs) ==
    /\ pc' = [pc EXCEPT ![e] = "chat"]
    /\ nchat' = [nchat EXCEPT ![e] = @ + 1]
    /\ sent' = [sent EXCEPT ![e] = msgs]

\* Faulty variant of AfterLoop: a result that is the text of a failed model
\* call is announced as a failure.
AfterLoop_error_status(e, result) ==
    LET r == IF result = NoneList THEN Placeholder ELSE result
    IN  /\ final_result' = [final_result EXCEPT ![e] = r]
        /\ _announce_result(e, r, IF Len(r) > 0 /\ r[1] = "Error calling LLM: "
                                  THEN "error" ELSE "ok")

\* Faulty variant of AfterLoop: `if not final_result`, so that an empty text
\* is replaced by the placeholder too.
AfterLoop_placeholder_if_falsy(e, result) ==
    LET r == IF ~TruthyList(result) THEN Placeholder ELSE result
    IN  /\ final_result' = [final_result EXCEPT ![e] = r]
        /\ _announce_result(e, r, "ok")

\* The code after the loop: the placeholder for a missing result, then the
\* status-ok announcement.
AfterLoop(e, result) ==
    LET r == IF result = NoneList THEN Placeholder ELSE result
    IN  /\ final_result' = [final_result EXCEPT ![e] = r]
        /\ _announce_result(e, r, "ok")

\* Faulty variant of LoopContinues: one iteration too many.
LoopContinues_inclusive(it) == it <= max_iterations

\* for _ in range(max_iterations): another iteration follows `it` completed ones.
LoopContinues(it) == it < max_iterations

\* Faulty variant of CurrentCall: the calls are taken from the end of the list.
CurrentCall_reversed(e) == calls[e][Len(calls[e]) + 1 - tcidx[e]]

\* for tc in response.tool_calls: the call being executed.
CurrentCall(e) == calls[e][tcidx[e]]

\* Faulty variant of AppendMessage: a transcript of six messages or more loses
\* its oldest turn (the message after the two seed messages) when it grows.
AppendMessage_window(msgs, m) ==
    IF Len(msgs) >= 6
    THEN Append(SubSeq(msgs, 1, 2) \o SubSeq(msgs, 4, Len(msgs)), m)
    ELSE Append(msgs, m)

\* messages.append(m)
AppendMessage(msgs, m) == Append(msgs, m)

\* The task starts: the registry and the transcript are built and the first
\* provider call is made; _build_tools may raise.
run_start(e) ==
    /\ pc[e] = "created"
    /\ \/ /\ registry' = [registry EXCEPT ![e] = _build_tools(cfg[e].config.tools)]
          /\ messages' = [messages EXCEPT ![e] = SeedMessages(e)]
          /\ CallProvider(e, SeedMessages(e))
          /\ UNCHANGED <<ann, attempts>>
       \/ /\ HandleException(e, "build_tools")
          /\ UNCHANGED <<registry, messages, nchat, sent>>
    /\ UNCHANGED <<mgrVars, cfg, iter, calls, tcidx, final_result, hist,
                   executed, escaped>>

\* provider.chat returns a response.
chat_returns(e, response) ==
    /\ pc[e] = "chat"
    /\ hist' = [hist EXCEPT ![e] = Append(@, response)]
    /\ IF has_tool_calls(response)
       THEN /\ messages' = [messages EXCEPT ![e] = AppendMessage(@, AssistantMessage(response))]
            /\ calls' = [calls EXCEPT ![e] = response.tool_calls]
            /\ tcidx' = [tcidx EXCEPT ![e] = 1]
            /\ pc' = [pc EXCEPT ![e] = "tool"]
            /\ UNCHANGED <<final_result, ann, attempts>>
       ELSE /\ AfterLoop(e, response.content)
            /\ UNCHANGED <<messages, calls, tcidx>>
    /\ UNCHANGED <<mgrVars, cfg, registry, iter, nchat, sent, executed, escaped>>

\* provider.chat raises.
chat_raises(e) ==
    /\ pc[e] = "chat"
    /\ HandleException(e, "chat")
    /\ UNCHANGED <<mgrVars, cfg, registry, messages, iter, calls, tcidx,
                   final_result, nchat, sent, hist, executed, escaped>>

\* tools.execute returns for the call at tcidx: its tool message is appended,
\* then the next call is executed, or the next iteration starts, or the loop
\* is exhausted.
tool_returns(e, result) ==
    /\ pc[e] = "tool"
    /\ LET tc == CurrentCall(e)
           msgs == AppendMessage(messages[e], ToolMessage(tc, result))
       IN  /\ messages' = [messages EXCEPT ![e] = msgs]
           /\ executed' = [executed EXCEPT ![e] = Append(@, tc.id)]
           /\ IF tcidx[e] < Len(calls[e])
              THEN /\ tcidx' = [tcidx EXCEPT ![e] = @ + 1]
                   /\ UNCHANGED <<pc, iter, nchat, sent, final_result, ann, attempts>>
              ELSE /\ iter' = [iter EXCEPT ![e] = @ + 1]
                   /\ UNCHANGED tcidx
                   /\ IF LoopContinues(iter[e] + 1)
                      THEN /\ CallProvider(e, msgs)
                           /\ UNCHANGED <<final_result, ann, attempts>>
                      ELSE /\ AfterLoop(e, final_result[e])
                           /\ UNCHANGED <<nchat, sent>>
    /\ UNCHANGED <<mgrVars, cfg, registry, calls, hist, escaped>>

\* Faulty variant of tool_raises: the exception is caught inside the loop,
\* its text becomes the tool message, and the next call is executed.
tool_raises_swallowed(e) ==
    /\ pc[e] = "tool"
    /\ tcidx[e] < Len(calls[e])
    /\ messages' = [messages EXCEPT ![e] =
                        AppendMessage(@, ToolMessage(CurrentCall(e), ExcText("tool")))]
    /\ tcidx' = [tcidx EXCEPT ![e] = @ + 1]
    /\ UNCHANGED <<mgrVars, cfg, registry, pc, iter, calls, final_result, ann,
                   nchat, sent, hist, executed, attempts, escaped>>

\* tools.execute raises.
tool_raises(e) ==
    /\ pc[e] = "tool"
    /\ HandleException(e, "tool")
    /\ UNCHANGED <<mgrVars, cfg, registry, messages, iter, calls, tcidx,
                   final_result, nchat, sent, hist, executed, escaped>>

\* The coroutine has ended: its frame (and what the model logs of it) is gone,
\* the task is done, and its done callback is scheduled on the event loop.
TaskEnds(e) ==
    /\ pc' = [pc EXCEPT ![e] = "done"]
    /\ registry' = [registry EXCEPT ![e] = {}]
    /\ messages' = [messages EXCEPT ![e] = <<>>]
    /\ iter' = [iter EXCEPT ![e] = 0]
    /\ calls' = [calls EXCEPT ![e] = <<>>]
    /\ tcidx' = [tcidx EXCEPT ![e] = 0]
    /\ final_result' = [final_result EXCEPT ![e] = NoneList]
    /\ ann' = [ann EXCEPT ![e] = NoAnn]
    /\ nchat' = [nchat EXCEPT ![e] = 0]
    /\ sent' = [sent EXCEPT ![e] = <<>>]
    /\ hist' = [hist EXCEPT ![e] = <<>>]
    /\ executed' = [executed EXCEPT ![e] = <<>>]

\* bus.publish_inbound returns: the message is on the bus, and
\* _announce_result and _run_subagent return.
publish_returns(e) ==
    /\ pc[e] \in {"announce_ok", "announce_error"}
    /\ bus' = Append(bus, [by |-> e,
                           msg |-> InboundMessage(cfg[e].label, cfg[e].task,
                                                  ann[e].result,
                                                  cfg[e].config.origin,
                                                  ann[e].status)])
    /\ TaskEnds(e)
    /\ UNCHANGED <<deep, provVars, toolVars, running, nspawned, ack, ctx, cfg, attempts, escaped>>

\* Faulty variant of publish_raises: a status-error publish that raises is
\* tried once more before its exception leaves the coroutine.
publish_raises_retry(e) ==
    /\ pc[e] \in {"announce_ok", "announce_error"}
    /\ IF pc[e] = "announce_ok" \/ Len(attempts[e]) < 3
       THEN /\ HandleException(e, "publish")
            /\ UNCHANGED <<registry, messages, iter, calls, tcidx, final_result,
                           nchat, sent, hist, executed, escaped>>
       ELSE /\ TaskEnds(e)
            /\ escaped' = [escaped EXCEPT ![e] = TRUE]
            /\ UNCHANGED attempts
    /\ UNCHANGED <<mgrVars, cfg>>

\* bus.publish_inbound raises: inside the try, the handler announces the
\* error; inside the handler, the exception leaves the coroutine.
publish_raises(e) ==
    /\ pc[e] \in {"announce_ok", "announce_error"}
    /\ IF pc[e] = "announce_ok"
       THEN /\ HandleException(e, "publish")
            /\ UNCHANGED <<registry, messages, iter, calls, tcidx, final_result,
                           nchat, sent, hist, executed, escaped>>
       ELSE /\ TaskEnds(e)
            /\ escaped' = [escaped EXCEPT ![e] = TRUE]
            /\ UNCHANGED attempts
    /\ UNCHANGED <<mgrVars, cfg>>

\* Faulty variant of done_callback: the callback runs and pops nothing.
done_callback_no_pop(e) ==
    /\ pc[e] = "done"
    /\ pc' = [pc EXCEPT ![e] = "removed"]
    /\ UNCHANGED <<mgrVars, cfg, registry, messages, iter, calls, tcidx,
                   final_result, ann, logVars>>

\* The done callback registered by spawn: self._running_tasks.pop(task_id, None)
done_callback(e) ==
    /\ pc[e] = "done"
    /\ running' = DictPop(running, cfg[e].task_id)
    /\ pc' = [pc EXCEPT ![e] = "removed"]
    /\ UNCHANGED <<deep, provVars, toolVars, nspawned, ack, ctx, bus, cfg, registry, messages, iter,
                   calls, tcidx, final_result, ann, logVars>>

\* What callers ask for: any request when one task is followed in depth, the
\* plain request when tasks run concurrently.
Requests == IF deep THEN SpawnRequests ELSE {r \in SpawnRequests : r.tools = NoneList}

\* What the main agent's model asks of the spawn tool: the same, and a request
\* naming a tool that does not exist.
ToolRequests ==
    Requests \cup {r \in SpawnRequests :
                      \E i \in 1..Len(r.tools) :
                          r.tools # NoneList
                          /\ r.tools[i] \notin Range(AVAILABLE_SUBAGENT_TOOLS)}

Next ==
    \/ \E r \in Requests, o \in Origins :
          spawn(r.task, r.label, r.model, r.system_prompt, r.tools, o[1], o[2])
    \/ \E o \in Origins : set_context(o[1], o[2])
    \/ \E r \in ToolRequests :
          execute(r.task, r.label, r.model, r.system_prompt, r.tools)
    \/ \E e \in Execs : run_start(e)
    \/ \E e \in Execs : \E response \in Offered(e) : chat_returns(e, response)
    \/ \E e \in Execs : chat_raises(e)
    \/ \E e \in Execs : \E result \in ToolResults : tool_returns(e, result)
    \/ \E e \in Execs : tool_raises(e)
    \/ \E e \in Execs : publish_returns(e)
    \/ \E e \in Execs : publish_raises(e)
    \/ \E e \in Execs : done_callback(e)

Spec == Init /\ [][Next]_vars

\* The event loop runs every callback it has scheduled.
FairSpec == Spec /\ \A e \in Execs : WF_vars(done_callback(e))

\* The event loop runs every task and callback it has scheduled, and every
\* provider call, tool execution and publish returns or raises.
LiveSpec ==
    /\ Spec
    /\ \A e \in Execs :
           /\ WF_vars(run_start(e))
           /\ WF_vars((\E response \in Offered(e) : chat_returns(e, response))
                          \/ chat_raises(e))
           /\ WF_vars((\E result \in ToolResults : tool_returns(e, result))
                          \/ tool_raises(e))
           /\ WF_vars(publish_returns(e) \/ publish_raises(e))
           /\ WF_vars(done_callback(e))

(***************************************************************************)
(* The provider routers: texts.                                            *)
(*                                                                         *)
(* A text is cut into fragments at the places where the routers cut, match *)
(* or extend it: "opencode/Kimi-K2.5" is <<"OpenCode", "/", "Kimi",         *)
(* "-K2.5">> when written with capitals.                                   *)
(***************************************************************************)
\* str.lower() of one fragment.
LowerFragment(f) ==
    CASE f = "OpenCode" -> "opencode"
      [] f = "Kimi" -> "kimi"
      [] f = "-K2.5" -> "-k2.5"
      [] OTHER -> f

\* s.lower()
lower(s) == [i \in 1..Len(s) |-> LowerFragment(s[i])]

\* s.startswith(p)
startswith(s, p) == IsPrefix(p, s)

\* s.endswith(p)
endswith(s, p) ==
    Len(p) <= Len(s) /\ SubSeq(s, Len(s) - Len(p) + 1, Len(s)) = p

\* p in s
contains(s, p) ==
    \E i \in 1..(Len(s) - Len(p) + 1) : SubSeq(s, i, i + Len(p) - 1) = p

\* The positions of "/" in s.
Slashes(s) == {i \in 1..Len(s) : s[i] = "/"}

\* s.split("/", 1)[1], for s with a "/" in it.
split_1(s) ==
    LET i == CHOOSE j \in Slashes(s) : \A k \in Slashes(s) : j <= k
    IN  SubSeq(s, i + 1, Len(s))

\* s.split("/")[-1]
split_last(s) ==
    IF Slashes(s) = {}
    THEN s
    ELSE LET i == CHOOSE j \in Slashes(s) : \A k \in Slashes(s) : j >= k
         IN  SubSeq(s, i + 1, Len(s))

\* s.rstrip("/")
RECURSIVE rstrip(_)
rstrip(s) ==
    IF Len(s) > 0 /\ s[Len(s)] = "/" THEN rstrip(SubSeq(s, 1, Len(s) - 1)) ELSE s

\* d.update(o)
DictUpdate(d, o) ==
    [k \in DOMAIN d \cup DOMAIN o |-> IF k \in DOMAIN o THEN o[k] ELSE d[k]]

(***************************************************************************)
(* The provider routers: the registry (providers/registry.py).             *)
(***************************************************************************)
\* temperature=1.0, in tenths
KimiTemperature == 10

\* No spec matched (None).
NoSpec == [name |-> None]

KimiOverrides == << [pattern |-> <<"kimi", "-k2.5">>,
                     overrides |-> [temperature |-> KimiTemperature]] >>

\* Overrides of a gateway that reaches the shared transport: the first entry
\* matches a model the vendor table overrides too, the second one does not.
GatewayOverrides == << [pattern |-> <<"kimi">>,
                        overrides |-> [temperature |-> 6, top_p |-> 95]],
                       [pattern |-> <<"gemini">>,
                        overrides |-> [top_p |-> 95]] >>

\* The gateways, in the order find_gateway tries them.
GATEWAYS ==
    << [name |-> "openrouter", env_key |-> "OPENROUTER_API_KEY",
        litellm_prefix |-> <<"openrouter">>, strip_model_prefix |-> FALSE,
        is_local |-> FALSE, detect_by_key_prefix |-> <<"sk-or-">>,
        detect_by_base_keyword |-> <<"openrouter">>,
        default_api_base |-> <<"https://", "openrouter", ".ai/api/v1">>,
        model_overrides |-> <<>>],
       [name |-> "aihubmix", env_key |-> "OPENAI_API_KEY",
        litellm_prefix |-> <<"openai">>, strip_model_prefix |-> TRUE,
        is_local |-> FALSE, detect_by_key_prefix |-> <<>>,
        detect_by_base_keyword |-> <<"aihubmix">>,
        default_api_base |-> <<"https://", "aihubmix", ".com/v1">>,
        model_overrides |-> GatewayOverrides],
       [name |-> "opencode", env_key |-> "OPENCODE_API_KEY",
        litellm_prefix |-> <<>>, strip_model_prefix |-> FALSE,
        is_local |-> FALSE, detect_by_key_prefix |-> <<>>,
        detect_by_base_keyword |-> <<"opencode">>,
        default_api_base |-> <<"https://", "opencode", ".ai/zen/v1">>,
        model_overrides |-> KimiOverrides],
       [name |-> "vllm", env_key |-> "HOSTED_VLLM_API_KEY",
        litellm_prefix |-> <<"hosted_vllm">>, strip_model_prefix |-> FALSE,
        is_local |-> TRUE, detect_by_key_prefix |-> <<>>,
        detect_by_base_keyword |-> <<"localhost">>,
        default_api_base |-> <<>>,
        model_overrides |-> <<>>] >>

\* The vendors, in the order find_by_model tries them.
PROVIDERS ==
    << [name |-> "anthropic", keywords |-> << <<"anthropic">>, <<"claude">> >>,
        env_key |-> "ANTHROPIC_API_KEY", litellm_prefix |-> <<>>,
        skip_prefixes |-> <<>>, env_extras |-> <<>>,
        default_api_base |-> <<>>, model_overrides |-> <<>>],
       [name |-> "gemini", keywords |-> << <<"gemini">> >>,
        env_key |-> "GEMINI_API_KEY", litellm_prefix |-> <<"gemini">>,
        skip_prefixes |-> << <<"gemini", "/">> >>, env_extras |-> <<>>,
        default_api_base |-> <<>>, model_overrides |-> <<>>],
       [name |-> "moonshot", keywords |-> << <<"moonshot">>, <<"kimi">> >>,
        env_key |-> "MOONSHOT_API_KEY", litellm_prefix |-> <<"moonshot">>,
        skip_prefixes |-> << <<"moonshot", "/">>, <<"openrouter", "/">> >>,
        env_extras |-> << <<"MOONSHOT_API_BASE", <<"{api_base}">> >> >>,
        default_api_base |-> <<"https://", "api.moonshot", ".ai/v1">>,
        model_overrides |-> KimiOverrides \o
            << [pattern |-> <<"kimi">>, overrides |-> [temperature |-> 6]] >>] >>

\* The spec at the least of the indices `hits`, or NoSpec when there is none.
FirstSpec(specs, hits) ==
    IF hits = {} THEN NoSpec
    ELSE specs[CHOOSE i \in hits : \A j \in hits : i <= j]

\* find_gateway(api_key, api_base): by credential prefix or endpoint keyword.
find_gateway(api_key, api_base) ==
    FirstSpec(GATEWAYS,
        {i \in 1..Len(GATEWAYS) :
            \/ /\ TruthyList(GATEWAYS[i].detect_by_key_prefix)
               /\ TruthyList(api_key)
               /\ startswith(api_key, GATEWAYS[i].detect_by_key_prefix)
            \/ /\ TruthyList(GATEWAYS[i].detect_by_base_keyword)
               /\ TruthyList(api_base)
               /\ contains(api_base, GATEWAYS[i].detect_by_base_keyword)})

\* find_by_model(model): by keyword in the lower-cased model name.
find_by_model(model) ==
    FirstSpec(PROVIDERS,
        {i \in 1..Len(PROVIDERS) :
            \E k \in 1..Len(PROVIDERS[i].keywords) :
                contains(lower(model), PROVIDERS[i].keywords[k])})

\* find_by_name(name), over the gateways.
find_by_name(name) ==
    FirstSpec(GATEWAYS, {i \in 1..Len(GATEWAYS) : GATEWAYS[i].name = name})

\* A spec was found (the truthiness of an optional spec).
TruthySpec(spec) == spec # NoSpec

(***************************************************************************)
(* The provider routers: inputs.                                           *)
(***************************************************************************)
\* Python truthiness of an optional dict, and of an optional list of dicts.
TruthyDict(d) == d # NoneDict /\ DOMAIN d # {}
TruthyRecords(l) == l # NoneRecords /\ l # <<>>

\* max_tokens: int = 4096
DefaultMaxTokens == 4096
\* temperature: float = 0.7, in tenths
DefaultTemperature == 7

ApiKeys == {NoneList, <<>>, <<"sk-or-", "k1">>, <<"k2">>, <<"k3">>}

ApiBases ==
    { NoneList,
      <<"https://", "opencode", ".ai/zen/v1", "/">>,
      <<"https://", "aihubmix", ".com/v1">>,
      <<"https://", "api.example", ".com/v1">> }

DefaultModels ==
    { <<>>,
      <<"anthropic", "/", "claude-opus-4-5">>,
      <<"moonshot", "/", "kimi", "-k2.5">> }

\* The model argument of chat.
ChatModels ==
    { NoneList,
      <<"OpenCode", "/", "Kimi", "-K2.5">>,
      <<"kimi", "-k2.5">>,
      <<"gemini", "-3-flash">>,
      <<"gemini", "/", "gemini", "-3-flash">>,
      <<"anthropic", "/", "kimi", "-k2.5">>,
      <<"gpt-4o">> }

ExtraHeaders == {NoneDict, [k \in {"APP-Code"} |-> <<"code">>]}

\* The tools argument of chat: None, or a list of tool definitions.
ChatTools == {NoneRecords, << [name |-> "read_file"] >>}

ChatTemperatures == {DefaultTemperature, 0}

ChatMessages == << [role |-> "user", content |-> <<"hi">>] >>

\* The exceptions a transport raises: httpx, litellm and the OpenAI SDK raise
\* for network failures and for a non-2xx status (raise_for_status).
TransportExceptions ==
    { [type |-> "ConnectError", str |-> <<"connection refused">>],
      [type |-> "TimeoutException", str |-> <<>>],
      [type |-> "HTTPStatusError", str |-> <<"Server error '500'">>,
       status_code |-> "500", text |-> <<>>],
      [type |-> "HTTPStatusError", str |-> <<"Client error '401'">>,
       status_code |-> "401", text |-> <<"bad key">>] }

\* A tool call as the wire carries it; its arguments are a str or a value.
RawToolCall(id, arguments) ==
    [id |-> id, function |-> [name |-> "read_file", arguments |-> arguments]]

RawArguments ==
    { [type |-> "str", text |-> "{\"path\": \"a\"}"],
      [type |-> "str", text |-> "not json"],
      [type |-> "str", text |-> "[1, 2]"],
      [type |-> "dict", value |-> [path |-> "a"]] }

RawUsage == [prompt_tokens |-> 3, completion_tokens |-> 4, total_tokens |-> 7]

\* A message of the chat-completions shape; tool_calls and reasoning may be
\* missing.
RawMessages ==
    { [content |-> <<"hello">>],
      [content |-> <<"hello">>, reasoning |-> <<"because">>, tool_calls |-> NoneRecords],
      [content |-> <<>>, reasoning |-> <<"because">>],
      [content |-> NoneList, reasoning |-> <<"because">>, tool_calls |-> <<>>],
      [content |-> NoneList, tool_calls |-> NoneRecords] }
    \cup { [content |-> NoneList, tool_calls |-> << RawToolCall("call_1", a) >>] :
             a \in RawArguments }
    \cup { [content |-> <<"thinking">>,
            tool_calls |-> << RawToolCall("call_1", [type |-> "dict", value |-> [path |-> "a"]]),
                              RawToolCall("call_2", [type |-> "str", text |-> "{}"]) >>] }

\* What a transport returns: the response body.  finish_reason and usage may
\* be null or missing; a body may have no choices at all.
RawResponses ==
    { [choices |-> << [message |-> m, finish_reason |-> "stop"] >>, usage |-> RawUsage] :
        m \in RawMessages }
    \cup { [choices |-> << [message |-> [content |-> <<"hello">>], finish_reason |-> None] >>,
            usage |-> NoneDict],
           [choices |-> << [message |-> [content |-> <<"hello">>]] >>],
           [choices |-> <<>>, usage |-> NoneDict] }

\* A body only the direct transport can return: a JSON object whose message
\* has no content key.
DirectResponses ==
    { [choices |-> << [message |-> [reasoning |-> <<"because">>],
                       finish_reason |-> "stop"] >>] }

\* d.get(k, default), and getattr(o, k, default)
Get(d, k, default) == IF k \in DOMAIN d THEN d[k] ELSE default

(***************************************************************************)
(* The provider routers: construction.                                     *)
(***************************************************************************)
\* How many provider objects one run constructs.
RouterCap == IF deep THEN 1 ELSE MaxRouters

\* The subagent side of the state, which no provider operation touches.
agentVars ==
    <<deep, toolVars, running, nspawned, ack, ctx, bus, taskVars, logVars>>

\* raise ValueError(...)
ValueError(what) == [kind |-> "raised", exc |-> [type |-> "ValueError", str |-> what]]

\* Faulty variant of DictSetDefault: the value is written whether the key is
\* set or not.
DictSetDefault_overwrite(d, k, v) == DictSet(d, k, v)

\* d.setdefault(k, v)
DictSetDefault(d, k, v) == IF k \in DOMAIN d THEN d ELSE DictSet(d, k, v)

\* s.replace(old, new), for a placeholder `old` that is one fragment.
RECURSIVE replace(_, _, _)
replace(s, old, new) ==
    IF s = <<>> THEN <<>>
    ELSE (IF Head(s) = old THEN new ELSE <<Head(s)>>) \o replace(Tail(s), old, new)

\* The loop over spec.env_extras, from entry i on.
RECURSIVE SetEnvExtras(_, _, _, _, _)
SetEnvExtras(env, extras, i, api_key, effective_base) ==
    IF i > Len(extras) THEN env
    ELSE LET resolved == replace(replace(extras[i][2], "{api_key}", api_key),
                                 "{api_base}", effective_base)
         IN  SetEnvExtras(DictSetDefault(env, extras[i][1], resolved),
                          extras, i + 1, api_key, effective_base)

\* Faulty variant of _setup_env: the gateway's variable is written with
\* setdefault, as a vendor's is.
_setup_env_gateway_setdefault(gateway, api_key, api_base, model) ==
    IF TruthySpec(gateway)
    THEN DictSetDefault(environ, gateway.env_key, api_key)
    ELSE LET spec == find_by_model(model)
         IN  IF TruthySpec(spec)
             THEN SetEnvExtras(DictSetDefault(environ, spec.env_key, api_key),
                               spec.env_extras, 1, api_key,
                               IF TruthyList(api_base) THEN api_base
                               ELSE spec.default_api_base)
             ELSE environ

\* os.environ after _setup_env(api_key, api_base, model) of a router with the
\* given gateway.
_setup_env(gateway, api_key, api_base, model) ==
    IF TruthySpec(gateway)
    THEN DictSet(environ, gateway.env_key, api_key)
    ELSE LET spec == find_by_model(model)
         IN  IF TruthySpec(spec)
             THEN SetEnvExtras(DictSetDefault(environ, spec.env_key, api_key),
                               spec.env_extras, 1, api_key,
                               IF TruthyList(api_base) THEN api_base
                               ELSE spec.default_api_base)
             ELSE environ

\* Faulty variant of LiteLLMProvider_init: the default model is looked at
\* after the environment is set up.
LiteLLMProvider_init_env_first(api_key, api_base, default_model_arg, extra_headers) ==
    /\ outcome.kind # "pending"
    /\ nrouters < RouterCap
    /\ nrouters' = nrouters + 1
    /\ request' = NoRequest
    /\ transport' = NoTransport
    /\ call' = NoCall
    /\ IF ~TruthyList(api_key)
       THEN /\ outcome' = ValueError("api_key is required")
            /\ router' = NoRouter
            /\ UNCHANGED <<environ, litellm_api_base>>
       ELSE IF ~TruthyList(default_model_arg)
       THEN /\ outcome' = ValueError("default_model is required")
            /\ router' = NoRouter
            /\ environ' = _setup_env(find_gateway(api_key, api_base), api_key,
                                     api_base, default_model_arg)
            /\ UNCHANGED litellm_api_base
       ELSE LET gateway == find_gateway(api_key, api_base)
                is_opencode == TruthySpec(gateway) /\ gateway.name = "opencode"
            IN  /\ router' =
                     [kind |-> "litellm",
                      api_key |-> api_key,
                      api_base |-> api_base,
                      default_model |-> default_model_arg,
                      extra_headers |-> IF TruthyDict(extra_headers)
                                        THEN extra_headers ELSE EmptyDict,
                      gateway |-> gateway,
                      is_openrouter |-> TruthySpec(gateway) /\ gateway.name = "openrouter",
                      is_aihubmix |-> TruthySpec(gateway) /\ gateway.name = "aihubmix",
                      is_opencode |-> is_opencode,
                      is_vllm |-> TruthySpec(gateway) /\ gateway.is_local]
                /\ environ' = _setup_env(gateway, api_key, api_base, default_model_arg)
                /\ litellm_api_base' = IF TruthyList(api_base) /\ ~is_opencode
                                       THEN api_base ELSE litellm_api_base
                /\ outcome' = [kind |-> "constructed"]
    /\ UNCHANGED agentVars

\* LiteLLMProvider(api_key, api_base, default_model, extra_headers)
LiteLLMProvider_init(api_key, api_base, default_model_arg, extra_headers) ==
    /\ outcome.kind # "pending"
    /\ nrouters < RouterCap
    /\ nrouters' = nrouters + 1
    /\ request' = NoRequest
    /\ transport' = NoTransport
    /\ call' = NoCall
    /\ IF ~TruthyList(api_key)
       THEN /\ outcome' = ValueError("api_key is required")
            /\ router' = NoRouter
            /\ UNCHANGED <<environ, litellm_api_base>>
       ELSE IF ~TruthyList(default_model_arg)
       THEN /\ outcome' = ValueError("default_model is required")
            /\ router' = NoRouter
            /\ UNCHANGED <<environ, litellm_api_base>>
       ELSE LET gateway == find_gateway(api_key, api_base)
                is_opencode == TruthySpec(gateway) /\ gateway.name = "opencode"
            IN  /\ router' =
                     [kind |-> "litellm",
                      api_key |-> api_key,
                      api_base |-> api_base,
                      default_model |-> default_model_arg,
                      extra_headers |-> IF TruthyDict(extra_headers)
                                        THEN extra_headers ELSE EmptyDict,
                      gateway |-> gateway,
                      is_openrouter |-> TruthySpec(gateway) /\ gateway.name = "openrouter",
                      is_aihubmix |-> TruthySpec(gateway) /\ gateway.name = "aihubmix",
                      is_opencode |-> is_opencode,
                      is_vllm |-> TruthySpec(gateway) /\ gateway.is_local]
                /\ environ' = _setup_env(gateway, api_key, api_base, default_model_arg)
                /\ litellm_api_base' = IF TruthyList(api_base) /\ ~is_opencode
                                       THEN api_base ELSE litellm_api_base
                /\ outcome' = [kind |-> "constructed"]
    /\ UNCHANGED agentVars

\* OpenAISDKProvider(api_key, api_base, default_model)
OpenAISDKProvider_init(api_key, api_base, default_model_arg) ==
    /\ outcome.kind # "pending"
    /\ nrouters < RouterCap
    /\ nrouters' = nrouters + 1
    /\ request' = NoRequest
    /\ transport' = NoTransport
    /\ call' = NoCall
    /\ IF ~TruthyList(api_key)
       THEN /\ outcome' = ValueError("api_key is required")
            /\ router' = NoRouter
       ELSE IF ~TruthyList(api_base)
       THEN /\ outcome' = ValueError("api_base is required")
            /\ router' = NoRouter
       ELSE IF ~TruthyList(default_model_arg)
       THEN /\ outcome' = ValueError("default_model is required")
            /\ router' = NoRouter
       ELSE /\ router' = [kind |-> "openai_sdk",
                          api_key |-> api_key,
                          api_base |-> api_base,
                          default_model |-> default_model_arg,
                          client |-> [api_key |-> api_key, base_url |-> api_base,
                                      default_headers |->
                                          [k \in {"User-Agent"} |-> "opencode/1.0.0"]]]
            /\ outcome' = [kind |-> "constructed"]
    /\ UNCHANGED <<environ, litellm_api_base, agentVars>>

(***************************************************************************)
(* The provider routers: parsing a response.                               *)
(***************************************************************************)
\* A parser returns an LLMResponse or raises.
Parsed(response) == [ok |-> TRUE, response |-> response]
ParseRaises(exc) == [ok |-> FALSE, exc |-> exc]

\* choices[0] of an empty list
IndexError == [type |-> "IndexError", str |-> <<"list index out of range">>]

\* The arguments of one tool call: a str is parsed as JSON, and kept under
\* "raw" when it is not JSON.
parse_arguments(args) ==
    IF args.type = "str"
    THEN IF IsJson(args.text)
         THEN json_loads(args.text)
         ELSE [type |-> "dict", value |-> [raw |-> args]]
    ELSE args

\* The loop over message.tool_calls.
parse_tool_calls(tool_calls) ==
    [i \in 1..Len(tool_calls) |->
        ToolCallRequest(tool_calls[i].id,
                        tool_calls[i].function.name,
                        parse_arguments(tool_calls[i].function.arguments))]

\* x or "stop"
OrStop(finish_reason) == IF TruthyStr(finish_reason) THEN finish_reason ELSE "stop"

\* LiteLLMProvider._parse_litellm_response(response)
_parse_litellm_response(response) ==
    IF Len(response.choices) = 0
    THEN ParseRaises(IndexError)
    ELSE LET choice == response.choices[1]
             message == choice.message
             tool_calls ==
                 IF "tool_calls" \in DOMAIN message /\ TruthyRecords(message.tool_calls)
                 THEN parse_tool_calls(message.tool_calls)
                 ELSE <<>>
             usage ==
                 IF "usage" \in DOMAIN response /\ TruthyDict(response.usage)
                 THEN [prompt_tokens |-> response.usage.prompt_tokens,
                       completion_tokens |-> response.usage.completion_tokens,
                       total_tokens |-> response.usage.total_tokens]
                 ELSE NoUsage
         IN  Parsed(LLMResponse(message.content, tool_calls,
                                OrStop(Get(choice, "finish_reason", None)), usage))

\* Faulty variant of _parse_opencode_response: the reasoning is never put in
\* the place of the content.
_parse_opencode_response_content_only(result) ==
    IF Len(result.choices) = 0
    THEN ParseRaises(IndexError)
    ELSE LET choice == result.choices[1]
             message == choice.message
             tool_calls ==
                 IF TruthyRecords(Get(message, "tool_calls", NoneRecords))
                 THEN parse_tool_calls(message.tool_calls)
                 ELSE <<>>
             content0 == IF TruthyList(Get(message, "content", NoneList))
                         THEN message.content ELSE <<>>
             content == content0
             usage ==
                 IF TruthyDict(Get(result, "usage", NoneDict))
                 THEN [prompt_tokens |-> Get(result.usage, "prompt_tokens", 0),
                       completion_tokens |-> Get(result.usage, "completion_tokens", 0),
                       total_tokens |-> Get(result.usage, "total_tokens", 0)]
                 ELSE NoUsage
         IN  Parsed(LLMResponse(content, tool_calls,
                                Get(choice, "finish_reason", "stop"), usage))

\* LiteLLMProvider._parse_opencode_response(result)
_parse_opencode_response(result) ==
    IF Len(result.choices) = 0
    THEN ParseRaises(IndexError)
    ELSE LET choice == result.choices[1]
             message == choice.message
             tool_calls ==
                 IF TruthyRecords(Get(message, "tool_calls", NoneRecords))
                 THEN parse_tool_calls(message.tool_calls)
                 ELSE <<>>
             content0 == IF TruthyList(Get(message, "content", NoneList))
                         THEN message.content ELSE <<>>
             content == IF ~TruthyList(content0)
                           /\ TruthyList(Get(message, "reasoning", NoneList))
                        THEN message.reasoning ELSE content0
             usage ==
                 IF TruthyDict(Get(result, "usage", NoneDict))
                 THEN [prompt_tokens |-> Get(result.usage, "prompt_tokens", 0),
                       completion_tokens |-> Get(result.usage, "completion_tokens", 0),
                       total_tokens |-> Get(result.usage, "total_tokens", 0)]
                 ELSE NoUsage
         IN  Parsed(LLMResponse(content, tool_calls,
                                Get(choice, "finish_reason", "stop"), usage))

\* OpenAISDKProvider._parse_response(response)
_parse_response(response) ==
    IF Len(response.choices) = 0
    THEN ParseRaises(IndexError)
    ELSE LET choice == response.choices[1]
             message == choice.message
             tool_calls ==
                 IF TruthyRecords(Get(message, "tool_calls", NoneRecords))
                 THEN parse_tool_calls(message.tool_calls)
                 ELSE <<>>
             content == IF TruthyList(message.content) THEN message.content ELSE <<>>
             usage ==
                 IF TruthyDict(Get(response, "usage", NoneDict))
                 THEN [prompt_tokens |-> response.usage.prompt_tokens,
                       completion_tokens |-> response.usage.completion_tokens,
                       total_tokens |-> response.usage.total_tokens]
                 ELSE NoUsage
         IN  Parsed(LLMResponse(content, tool_calls,
                                OrStop(Get(choice, "finish_reason", None)), usage))

(***************************************************************************)
(* The provider routers: chat.                                             *)
(***************************************************************************)
OpencodePrefix == <<"opencode", "/">>
KimiToken == <<"kimi", "-k2.5">>
ChatCompletions == <<"/chat/completions">>

\* Faulty variant of _resolve_model: the gateway's prefix is added without
\* looking whether the name already starts with it.
_resolve_model_always_prefix(model) ==
    IF router.is_opencode
    THEN IF startswith(lower(model), OpencodePrefix) THEN split_1(model) ELSE model
    ELSE IF TruthySpec(router.gateway)
    THEN LET prefix == router.gateway.litellm_prefix
             stripped == IF router.gateway.strip_model_prefix
                         THEN split_last(model) ELSE model
         IN  IF TruthyList(prefix)
             THEN prefix \o <<"/">> \o stripped
             ELSE stripped
    ELSE LET spec == find_by_model(model)
         IN  IF /\ TruthySpec(spec)
                /\ TruthyList(spec.litellm_prefix)
                /\ ~\E i \in 1..Len(spec.skip_prefixes) :
                        startswith(model, spec.skip_prefixes[i])
             THEN spec.litellm_prefix \o <<"/">> \o model
             ELSE model

\* LiteLLMProvider._resolve_model(model)
_resolve_model(model) ==
    IF router.is_opencode
    THEN IF startswith(lower(model), OpencodePrefix) THEN split_1(model) ELSE model
    ELSE IF TruthySpec(router.gateway)
    THEN LET prefix == router.gateway.litellm_prefix
             stripped == IF router.gateway.strip_model_prefix
                         THEN split_last(model) ELSE model
         IN  IF TruthyList(prefix) /\ ~startswith(stripped, prefix \o <<"/">>)
             THEN prefix \o <<"/">> \o stripped
             ELSE stripped
    ELSE LET spec == find_by_model(model)
         IN  IF /\ TruthySpec(spec)
                /\ TruthyList(spec.litellm_prefix)
                /\ ~\E i \in 1..Len(spec.skip_prefixes) :
                        startswith(model, spec.skip_prefixes[i])
             THEN spec.litellm_prefix \o <<"/">> \o model
             ELSE model

\* The first entry of model_overrides whose pattern is in model_lower, as a
\* set of at most one index.
FirstOverride(model_overrides, model_lower) ==
    LET hits == {i \in 1..Len(model_overrides) :
                    contains(model_lower, model_overrides[i].pattern)}
    IN  {i \in hits : \A j \in hits : i <= j}

\* Faulty variant of _apply_model_overrides: the return after the vendor's
\* entry is missing, so the gateway's entry is applied on top of it.
_apply_model_overrides_both(model, kwargs) ==
    LET model_lower == lower(model)
        spec == find_by_model(model)
        of_spec == IF TruthySpec(spec)
                   THEN FirstOverride(spec.model_overrides, model_lower) ELSE {}
        of_gateway == IF TruthySpec(router.gateway)
                      THEN FirstOverride(router.gateway.model_overrides, model_lower)
                      ELSE {}
        kwargs1 == IF of_spec # {}
                   THEN DictUpdate(kwargs, spec.model_overrides[
                                               CHOOSE i \in of_spec : TRUE].overrides)
                   ELSE kwargs
    IN  IF of_gateway # {}
        THEN DictUpdate(kwargs1, router.gateway.model_overrides[
                                     CHOOSE i \in of_gateway : TRUE].overrides)
        ELSE kwargs1

\* kwargs after LiteLLMProvider._apply_model_overrides(model, kwargs)
_apply_model_overrides(model, kwargs) ==
    LET model_lower == lower(model)
        spec == find_by_model(model)
        of_spec == IF TruthySpec(spec)
                   THEN FirstOverride(spec.model_overrides, model_lower) ELSE {}
        of_gateway == IF TruthySpec(router.gateway)
                      THEN FirstOverride(router.gateway.model_overrides, model_lower)
                      ELSE {}
    IN  IF of_spec # {}
        THEN DictUpdate(kwargs, spec.model_overrides[CHOOSE i \in of_spec : TRUE].overrides)
        ELSE IF of_gateway # {}
        THEN DictUpdate(kwargs, router.gateway.model_overrides[
                                    CHOOSE i \in of_gateway : TRUE].overrides)
        ELSE kwargs

\* if tools: kwargs["tools"] = tools; kwargs["tool_choice"] = "auto"
WithTools(kwargs, tools) ==
    IF TruthyRecords(tools)
    THEN DictSet(DictSet(kwargs, "tools", tools), "tool_choice", "auto")
    ELSE kwargs

\* LiteLLMProvider._get_opencode_url()
_get_opencode_url ==
    LET spec == find_by_name("opencode")
        base == IF ~TruthyList(router.api_base)
                THEN IF TruthySpec(spec) THEN spec.default_api_base
                     ELSE <<"https://", "opencode", ".ai/zen/v1">>
                ELSE router.api_base
    IN  IF ~endswith(base, ChatCompletions)
        THEN rstrip(base) \o ChatCompletions
        ELSE base

\* LiteLLMProvider._get_opencode_headers()
_get_opencode_headers ==
    [k \in {"Content-Type", "Authorization", "User-Agent"} |->
        CASE k = "Content-Type" -> <<"application/json">>
          [] k = "Authorization" -> <<"Bearer ">> \o router.api_key
          [] k = "User-Agent" -> <<"opencode/1.0.0">>]

\* What LiteLLMProvider._opencode_chat gives to httpx.
_opencode_request(model, messages_arg, tools, max_tokens, temperature) ==
    LET t == IF contains(lower(model), KimiToken) THEN KimiTemperature ELSE temperature
        payload == [model |-> model, messages |-> messages_arg,
                    max_tokens |-> max_tokens, temperature |-> t]
    IN  [path |-> "direct",
         url |-> _get_opencode_url,
         headers |-> _get_opencode_headers,
         payload |-> WithTools(payload, tools)]

\* What the LiteLLM path of LiteLLMProvider.chat gives to acompletion.
_litellm_request(raw_model, messages_arg, tools, max_tokens, temperature) ==
    LET model == _resolve_model(raw_model)
        kwargs0 == [model |-> model, messages |-> messages_arg,
                    max_tokens |-> max_tokens, temperature |-> temperature]
        kwargs1 == _apply_model_overrides(model, kwargs0)
        kwargs2 == IF TruthyList(router.api_base)
                   THEN DictSet(kwargs1, "api_base", router.api_base) ELSE kwargs1
        kwargs3 == IF TruthyDict(router.extra_headers)
                   THEN DictSet(kwargs2, "extra_headers", router.extra_headers)
                   ELSE kwargs2
    IN  [path |-> "shared", kwargs |-> WithTools(kwargs3, tools)]

\* LiteLLMProvider.chat, up to the await of the transport.
LiteLLMProvider_chat(messages_arg, tools, model, max_tokens, temperature) ==
    /\ router.kind = "litellm"
    /\ outcome.kind # "pending"
    /\ LET raw_model == IF TruthyList(model) THEN model ELSE router.default_model
       IN  request' =
             IF router.is_opencode \/ startswith(lower(raw_model), OpencodePrefix)
             THEN _opencode_request(
                      IF startswith(lower(raw_model), OpencodePrefix)
                      THEN split_1(raw_model) ELSE raw_model,
                      messages_arg, tools, max_tokens, temperature)
             ELSE _litellm_request(raw_model, messages_arg, tools, max_tokens,
                                   temperature)
    /\ outcome' = [kind |-> "pending"]
    /\ transport' = NoTransport
    /\ call' = [made |-> TRUE, messages |-> messages_arg, tools |-> tools,
                model |-> model, max_tokens |-> max_tokens,
                temperature |-> temperature]
    /\ UNCHANGED <<router, environ, litellm_api_base, nrouters, agentVars>>

\* OpenAISDKProvider.chat, up to the await of the transport.
OpenAISDKProvider_chat(messages_arg, tools, model, max_tokens, temperature) ==
    /\ router.kind = "openai_sdk"
    /\ outcome.kind # "pending"
    /\ LET model0 == IF TruthyList(model) THEN model ELSE router.default_model
           model1 == IF contains(model0, <<"/">>) THEN split_1(model0) ELSE model0
           t == IF contains(lower(model1), KimiToken) THEN KimiTemperature
                ELSE temperature
           kwargs == [model |-> model1, messages |-> messages_arg,
                      max_tokens |-> max_tokens, temperature |-> t]
       IN  request' = [path |-> "sdk", kwargs |-> WithTools(kwargs, tools)]
    /\ outcome' = [kind |-> "pending"]
    /\ transport' = NoTransport
    /\ call' = [made |-> TRUE, messages |-> messages_arg, tools |-> tools,
                model |-> model, max_tokens |-> max_tokens,
                temperature |-> temperature]
    /\ UNCHANGED <<router, environ, litellm_api_base, nrouters, agentVars>>

\* return LLMResponse(...)
Returned(response) == [kind |-> "returned", response |-> response]
\* An exception leaves chat.
Raised(exc) == [kind |-> "raised", exc |-> exc]

\* LiteLLMProvider.chat: except Exception as e
chat_except(e) ==
    Returned(LLMResponse(<<"Error calling LLM: ">> \o e.str, <<>>, "error", NoUsage))

\* Faulty variant of _opencode_chat_except: the except Exception clause is
\* missing, so only a status error is turned into a response.
_opencode_chat_except_status_only(e) ==
    IF e.type = "HTTPStatusError"
    THEN Returned(LLMResponse(<<"OpenCode API error ", e.status_code, ": ">> \o e.text,
                              <<>>, "error", NoUsage))
    ELSE Raised(e)

\* LiteLLMProvider._opencode_chat: except httpx.HTTPStatusError, except Exception
_opencode_chat_except(e) ==
    IF e.type = "HTTPStatusError"
    THEN Returned(LLMResponse(<<"OpenCode API error ", e.status_code, ": ">> \o e.text,
                              <<>>, "error", NoUsage))
    ELSE Returned(LLMResponse(<<"Error calling OpenCode: ">> \o e.str,
                              <<>>, "error", NoUsage))

\* OpenAISDKProvider.chat: except Exception as e
sdk_chat_except(e) ==
    Returned(LLMResponse(<<"Error calling OpenAI SDK: ">> \o e.str, <<>>, "error", NoUsage))

\* The except clauses around the transport call of the path taken.
Except(e) ==
    CASE request.path = "shared" -> chat_except(e)
      [] request.path = "direct" -> _opencode_chat_except(e)
      [] request.path = "sdk" -> sdk_chat_except(e)

\* The parser of the path taken.
Parse(raw) ==
    CASE request.path = "shared" -> _parse_litellm_response(raw)
      [] request.path = "direct" -> _parse_opencode_response(raw)
      [] request.path = "sdk" -> _parse_response(raw)

\* The transport answers with a body; chat parses it inside its try.
transport_returns(raw) ==
    /\ outcome.kind = "pending"
    /\ transport' = [did |-> "returned", body |-> raw]
    /\ outcome' = IF Parse(raw).ok
                  THEN Returned(Parse(raw).response)
                  ELSE Except(Parse(raw).exc)
    /\ UNCHANGED <<router, request, environ, litellm_api_base, nrouters, call,
                   agentVars>>

\* The transport raises: the network failed, or the status was not 2xx.
transport_raises(e) ==
    /\ outcome.kind = "pending"
    /\ transport' = [did |-> "raised", exc |-> e]
    /\ outcome' = Except(e)
    /\ UNCHANGED <<router, request, environ, litellm_api_base, nrouters, call,
                   agentVars>>

(***************************************************************************)
(* The provider routers on their own.                                      *)
(***************************************************************************)
\* What os.environ holds before the first router is constructed.
Environs ==
    { EmptyDict,
      [k \in {"MOONSHOT_API_KEY", "OPENROUTER_API_KEY"} |-> <<"old">>] }

ProvInit ==
    /\ deep \in BOOLEAN
    /\ ManagerInit
    /\ NoSecrets
    /\ router = NoRouter
    /\ request = NoRequest
    /\ outcome = NoOutcome
    /\ environ \in Environs
    /\ litellm_api_base = NoneList
    /\ transport = NoTransport
    /\ nrouters = 0
    /\ call = NoCall

\* The credentials routers are constructed with: a third one where routers
\* follow one another.
KeysGiven == IF deep THEN ApiKeys \ {<<"k3">>} ELSE ApiKeys

\* What the transport answers: every body where one router is followed in
\* depth, a plain one where routers follow one another.
ResponsesOffered ==
    IF deep
    THEN RawResponses \cup (IF request.path = "direct" THEN DirectResponses ELSE {})
    ELSE { [choices |-> << [message |-> [content |-> <<"hello">>],
                            finish_reason |-> "stop"] >>,
            usage |-> RawUsage] }

\* The chat calls the run makes.
ModelsAsked == IF deep THEN ChatModels ELSE {NoneList}

ProvNext ==
    \/ \E api_key \in KeysGiven, api_base \in ApiBases, m \in DefaultModels,
          extra_headers \in ExtraHeaders :
          LiteLLMProvider_init(api_key, api_base, m, extra_headers)
    \/ \E api_key \in KeysGiven, api_base \in ApiBases, m \in DefaultModels :
          OpenAISDKProvider_init(api_key, api_base, m)
    \/ \E tools \in ChatTools, m \in ModelsAsked, t \in ChatTemperatures :
          LiteLLMProvider_chat(ChatMessages, tools, m, DefaultMaxTokens, t)
    \/ \E tools \in ChatTools, m \in ModelsAsked, t \in ChatTemperatures :
          OpenAISDKProvider_chat(ChatMessages, tools, m, DefaultMaxTokens, t)
    \/ \E raw \in ResponsesOffered : transport_returns(raw)
    \/ \E e \in TransportExceptions : transport_raises(e)

ProvSpec == ProvInit /\ [][ProvNext]_vars

(***************************************************************************)
(* The secrets tool (agent/tools/secrets.py).                              *)
(***************************************************************************)
\* A string holding a lone surrogate: a str that UTF-8 cannot encode.
LoneSurrogate == "<U+D800>"

\* The arguments the agent's model gives to the tool.
SecretActions == {"store", "get", "list", "delete", "rotate"}
SecretKeys == {None, "", "ETH_WALLET_KEY", "API_KEY"}
SecretValues == {None, "", "v1", "v2", LoneSurrogate}

\* A dict[str, str]: the sequence of its items, in insertion order.
dict_in(k, d) == \E i \in DOMAIN d : d[i][1] = k
dict_getitem(d, k) == d[CHOOSE i \in DOMAIN d : d[i][1] = k][2]
dict_setitem(d, k, v) ==
    IF dict_in(k, d)
    THEN [i \in DOMAIN d |-> IF d[i][1] = k THEN <<k, v>> ELSE d[i]]
    ELSE Append(d, <<k, v>>)
dict_delitem(d, k) == SelectSeq(d, LAMBDA item : item[1] # k)

\* A JSON text is the sequence of its tokens: punctuation and strings.
Punct(c) == [t |-> c, s |-> ""]
Str(x) == [t |-> "str", s |-> x]

\* json.dumps(secrets, indent=2, ensure_ascii=False)
RECURSIVE json_dumps_dict_items(_)
json_dumps_dict_items(d) ==
    IF d = <<>> THEN <<>>
    ELSE <<Str(d[1][1]), Punct(":"), Str(d[1][2])>>
         \o (IF Len(d) > 1 THEN <<Punct(",")>> ELSE <<>>)
         \o json_dumps_dict_items(Tail(d))
json_dumps_dict(d) == <<Punct("{")>> \o json_dumps_dict_items(d) \o <<Punct("}")>>

\* json.loads(text): the dict, or a JSONDecodeError (ok is FALSE).
JSONDecodeError == [ok |-> FALSE, value |-> <<>>]
RECURSIVE json_loads_dict_members(_)
json_loads_dict_members(toks) ==
    IF Len(toks) < 3 THEN JSONDecodeError
    ELSE IF toks[1].t # "str" \/ toks[2].t # ":" \/ toks[3].t # "str"
    THEN JSONDecodeError
    ELSE IF Len(toks) = 3
    THEN [ok |-> TRUE, value |-> << <<toks[1].s, toks[3].s>> >>]
    ELSE IF toks[4].t # "," THEN JSONDecodeError
    ELSE LET rest == json_loads_dict_members(SubSeq(toks, 5, Len(toks)))
             k == toks[1].s
         IN  IF ~rest.ok THEN JSONDecodeError
             ELSE IF dict_in(k, rest.value)
             THEN [ok |-> TRUE,
                   value |-> << <<k, dict_getitem(rest.value, k)>> >>
                             \o dict_delitem(rest.value, k)]
             ELSE [ok |-> TRUE, value |-> << <<k, toks[3].s>> >> \o rest.value]
json_loads_dict(text) ==
    IF Len(text) < 2 THEN JSONDecodeError
    ELSE IF text[1].t # "{" \/ text[Len(text)].t # "}" THEN JSONDecodeError
    ELSE IF Len(text) = 2 THEN [ok |-> TRUE, value |-> <<>>]
    ELSE json_loads_dict_members(SubSeq(text, 2, Len(text) - 1))

\* text.encode("utf-8") succeeds.
Encodable(text) == \A i \in DOMAIN text : text[i].s # LoneSurrogate

\* SecretsTool._load on a file: {} when the file is missing or does not parse.
_load(file) ==
    IF ~file.exists THEN <<>>
    ELSE LET parsed == json_loads_dict(file.text)
         IN  IF parsed.ok THEN parsed.value ELSE <<>>

\* SecretsTool._save: write_text opens the file for writing, which empties
\* it, and then encodes and writes the text; the encoding may raise.
_save(file, secrets) ==
    LET text == json_dumps_dict(secrets)
    IN  IF Encodable(text)
        THEN [raised |-> FALSE, file |-> [exists |-> TRUE, text |-> text]]
        ELSE [raised |-> TRUE, file |-> [exists |-> TRUE, text |-> <<>>]]

\* What execute returns (a text, as fragments) or raises.
Replied(text) == [kind |-> "returned", text |-> text]
Threw(exc) == [kind |-> "raised", text |-> <<exc>>]

\* str(n) of a small positive integer.
Digits == <<"1", "2", "3", "4", "5", "6", "7", "8", "9">>
\* ", ".join(keys) of the keys of a dict.
RECURSIVE join_keys(_)
join_keys(d) ==
    IF d = <<>> THEN <<>>
    ELSE <<d[1][1]>> \o (IF Len(d) > 1 THEN <<", ">> ELSE <<>>) \o join_keys(Tail(d))

\* SecretsTool._store: the file and the reply after it.
_store(file, key, value) ==
    IF ~TruthyStr(key) \/ ~TruthyStr(value)
    THEN [file |-> file, reply |-> Replied(<<"Error: key and value are required">>)]
    ELSE LET saved == _save(file, dict_setitem(_load(file), key, value))
         IN  [file |-> saved.file,
              reply |-> IF saved.raised THEN Threw("UnicodeEncodeError")
                        ELSE Replied(<<"Secret '", key, "' stored successfully">>)]

\* SecretsTool._get
_get(file, key) ==
    IF ~TruthyStr(key)
    THEN [file |-> file, reply |-> Replied(<<"Error: key is required">>)]
    ELSE IF ~dict_in(key, _load(file))
    THEN [file |-> file, reply |-> Replied(<<"Secret '", key, "' not found">>)]
    ELSE [file |-> file, reply |-> Replied(<<dict_getitem(_load(file), key)>>)]

\* SecretsTool._list
_list(file) ==
    LET secrets == _load(file)
    IN  IF secrets = <<>>
        THEN [file |-> file, reply |-> Replied(<<"No secrets stored">>)]
        ELSE [file |-> file,
              reply |-> Replied(<<"Stored secrets (", Digits[Len(secrets)], "): ">>
                                 \o join_keys(secrets))]

\* SecretsTool._delete
_delete(file, key) ==
    IF ~TruthyStr(key)
    THEN [file |-> file, reply |-> Replied(<<"Error: key is required">>)]
    ELSE IF ~dict_in(key, _load(file))
    THEN [file |-> file, reply |-> Replied(<<"Secret '", key, "' not found">>)]
    ELSE LET saved == _save(file, dict_delitem(_load(file), key))
         IN  [file |-> saved.file,
              reply |-> IF saved.raised THEN Threw("UnicodeEncodeError")
                        ELSE Replied(<<"Secret '", key, "' deleted">>)]

\* SecretsTool.execute: it has no await in its body, so it is one step.
SecretsTool_execute(action, key, value) ==
    LET done == CASE action = "store" -> _store(secrets_json, key, value)
                  [] action = "get" -> _get(secrets_json, key)
                  [] action = "list" -> _list(secrets_json)
                  [] action = "delete" -> _delete(secrets_json, key)
                  [] OTHER -> [file |-> secrets_json,
                               reply |-> Replied(<<"Unknown action: ", action>>)]
    IN  /\ secrets_json' = done.file
        /\ reply' = done.reply
        /\ asked' = [action |-> action, key |-> key, value |-> value]
        /\ UNCHANGED <<deep, provVars, running, nspawned, ack, ctx, bus, taskVars, logVars>>

SecretsInit ==
    /\ deep = TRUE
    /\ ManagerInit
    /\ NoProvider
    /\ NoSecrets

SecretsNext ==
    \E action \in SecretActions, key \in SecretKeys, value \in SecretValues :
        SecretsTool_execute(action, key, value)

SecretsSpec == SecretsInit /\ [][SecretsNext]_vars

(***************************************************************************)
(* Vocabulary of the properties.                                           *)
(***************************************************************************)
\* The background task exists and its coroutine has not finished.
InFlight(e) == pc[e] \in {"created", "chat", "tool", "announce_ok", "announce_error"}
\* The coroutine has finished, with a result or with an exception.
Finished(e) == pc[e] \in {"done", "removed"}
\* The messages task e has put on the bus.
Announcements(e) == SelectSeq(bus, LAMBDA m : m.by = e)
get_running_count == Cardinality(DOMAIN running)
Last(s) == s[Len(s)]


\* The chat_id an announcement of task e must carry.
OriginChatId(e) == <<cfg[e].config.origin.channel, ":", cfg[e].config.origin.chat_id>>

(***************************************************************************)
(* Exactly-once announcement.                                              *)
(***************************************************************************)
\* C1: every task, however its execution ends (a publish that raises
\* included), has exactly one announcement on the bus once it has finished,
\* never more than one before, addressed to the origin given at spawn.
C1_ExactlyOneAnnouncement ==
    \A e \in Execs :
        /\ Len(Announcements(e)) <= 1
        /\ Finished(e) => Len(Announcements(e)) = 1
        /\ \A i \in 1..Len(Announcements(e)) :
               Announcements(e)[i].msg.chat_id = OriginChatId(e)

\* What the code does guarantee: at most one announcement per task, addressed
\* to the origin given at spawn; a finished task has exactly one unless the
\* publish of the status-error announcement itself raised, and then it has
\* none.
OneAnnouncementUnlessPublishFails ==
    \A e \in Execs :
        /\ Len(Announcements(e)) <= 1
        /\ Finished(e) => Len(Announcements(e)) = (IF escaped[e] THEN 0 ELSE 1)
        /\ InFlight(e) => ~escaped[e]
        /\ \A i \in 1..Len(Announcements(e)) :
               Announcements(e)[i].msg.chat_id = OriginChatId(e)

(***************************************************************************)
(* The running-tasks map.                                                  *)
(***************************************************************************)
\* C2: get_running_count() equals the number of spawned executions that have
\* not yet finished.
C2_RunningCountIsInFlight ==
    get_running_count = Cardinality({e \in Execs : InFlight(e)})

\* C3 (as stated): no finished execution's identifier is a key of the map.
C3_RemovedAtFinish ==
    \A e \in Execs : Finished(e) => cfg[e].task_id \notin DOMAIN running

\* C3 (amended): the identifier of a finished execution is removed by its done
\* callback, which the event loop runs after the execution has finished: when
\* the callback has run the identifier is not a key of the map, afterwards the
\* finished task is not a value of the map, and the callback of every finished
\* execution eventually runs.
C3_RemovedByDoneCallback ==
    /\ [][\A e \in Execs :
            (pc[e] = "done" /\ pc'[e] = "removed")
                => cfg[e].task_id \notin DOMAIN running']_vars
    /\ [](\A e \in Execs :
            pc[e] = "removed" => \A k \in DOMAIN running : running[k] # e)
    /\ \A e \in Execs : (pc[e] = "done") ~> (pc[e] = "removed")

\* One task that ended with a result and one that ended with an exception
\* have both been removed.
C3_Witness ==
    \E e1, e2 \in Execs :
        /\ pc[e1] = "removed" /\ escaped[e1]
        /\ pc[e2] = "removed" /\ ~escaped[e2]
        /\ DOMAIN running = {}

\* C4: the identifiers of the executions in flight are pairwise distinct, and
\* each of them is registered under its identifier.
C4_DistinctRunningIds ==
    \A e1, e2 \in Execs :
        InFlight(e1) /\ InFlight(e2) /\ e1 # e2
            => /\ cfg[e1].task_id # cfg[e2].task_id
               /\ cfg[e1].task_id \in DOMAIN running
               /\ running[cfg[e1].task_id] = e1

\* C5: when spawn returns, with its acknowledgement, the new task is registered
\* and has made no step: no model call, no tool execution, no publish; and no
\* other task has moved.
C5_SpawnReturnsAtOnce ==
    [][nspawned' # nspawned =>
        LET e == nspawned'
        IN  /\ e = nspawned + 1
            /\ ack' = [kind |-> "started", label |-> cfg'[e].label,
                       id |-> cfg'[e].task_id]
            /\ cfg'[e].task_id \in DOMAIN running'
            /\ running'[cfg'[e].task_id] = e
            /\ pc'[e] = "created"
            /\ nchat'[e] = 0 /\ hist'[e] = <<>> /\ executed'[e] = <<>>
            /\ attempts'[e] = <<>>
            /\ bus' = bus
            /\ \A o \in Execs \ {e} : pc'[o] = pc[o] /\ nchat'[o] = nchat[o]
      ]_vars

\* spawn has just returned for a new task while an earlier one is still
\* waiting for its model.
C5_Witness ==
    \E e, o \in Execs :
        /\ e # o /\ e = nspawned
        /\ pc[e] = "created" /\ pc[o] = "chat"
        /\ ack.kind = "started" /\ ack.id = cfg[e].task_id
        /\ running[cfg[e].task_id] = e

(***************************************************************************)
(* The conversation loop.                                                  *)
(***************************************************************************)
RECURSIVE CallsBefore(_, _)
\* How many tool calls the responses before the t-th carry.
CallsBefore(h, t) ==
    IF t <= 1 THEN 0 ELSE CallsBefore(h, t - 1) + Len(h[t - 1].tool_calls)

\* The responses with tool calls that task e has received: all of hist[e] but
\* a last one without tool calls.
ToolTurns(e) ==
    IF hist[e] # <<>> /\ Len(Last(hist[e]).tool_calls) = 0
    THEN Len(hist[e]) - 1
    ELSE Len(hist[e])

\* How many calls of its t-th response task e has executed.
ExecutedOf(e, t) ==
    IF t < ToolTurns(e)
    THEN Len(hist[e][t].tool_calls)
    ELSE Len(executed[e]) - CallsBefore(hist[e], t)

\* Where the assistant message of the t-th response is in the transcript.
AssistantAt(e, t) == 2 + (t - 1) + CallsBefore(hist[e], t) + 1

\* All 15 responses carried tool calls and every call was executed.
Exhausted(e) ==
    /\ Len(hist[e]) = 15
    /\ \A t \in 1..15 : Len(hist[e][t].tool_calls) > 0
    /\ Len(executed[e]) = CallsBefore(hist[e], 16)

CompletedMsg(e, result) ==
    [by |-> e,
     msg |-> [channel |-> "system", sender_id |-> "subagent",
              chat_id |-> OriginChatId(e),
              content |-> [label |-> cfg[e].label, status_text |-> "completed",
                           task |-> cfg[e].task, result |-> result]]]

\* C6: provider.chat is called at most 15 times in a run; after 15 responses
\* with tool calls the result is the placeholder, the announcement attempted is
\* the status-ok one, and what is published for it says "completed".
C6_AtMostFifteenTurns ==
    /\ [](\A e \in Execs :
            /\ nchat[e] <= 15
            /\ Len(hist[e]) <= 15
            /\ Exhausted(e) =>
                 /\ pc[e] \in {"announce_ok", "announce_error"}
                 /\ final_result[e] = <<"Task completed but no final response generated.">>
                 /\ attempts[e][1] = "ok"
                 /\ pc[e] = "announce_ok" =>
                      ann[e] = [result |-> <<"Task completed but no final response generated.">>,
                                status |-> "ok"]
                 /\ pc[e] = "announce_error" =>
                      /\ attempts[e] = <<"ok", "error">>
                      /\ ann[e].result = ExcText("publish"))
    /\ [][\A e \in Execs :
            (Exhausted(e) /\ pc[e] = "announce_ok" /\ pc'[e] = "done")
                => bus' = Append(bus, CompletedMsg(e,
                              <<"Task completed but no final response generated.">>))]_vars

\* The fifteenth response carried tool calls, they were executed, and the
\* status-ok announcement is being published.
C6_Witness ==
    \E e \in Execs : Exhausted(e) /\ pc[e] = "announce_ok" /\ nchat[e] = 15

\* C7: the transcript is the two seed messages followed, for each response with
\* tool calls in the order received, by one assistant message recording its
\* calls and one tool message per executed call, in the order of the calls;
\* the calls are executed in that order; and whenever the provider is called
\* every call of every earlier response has its tool message in the list.
C7_ToolCallsInOrder ==
    \A e \in Execs :
        (InFlight(e) /\ nchat[e] > 0) =>
            /\ Len(messages[e])
                 = 2 + ToolTurns(e) + Len(executed[e])
            /\ \A t \in 1..ToolTurns(e) :
                 LET tcs == hist[e][t].tool_calls
                     at == AssistantAt(e, t)
                 IN  /\ ExecutedOf(e, t) \in 0..Len(tcs)
                     /\ messages[e][at].role = "assistant"
                     /\ Len(messages[e][at].tool_calls) = Len(tcs)
                     /\ \A i \in 1..Len(tcs) :
                          /\ messages[e][at].tool_calls[i].id = tcs[i].id
                          /\ messages[e][at].tool_calls[i].function.name = tcs[i].name
                     /\ \A i \in 1..ExecutedOf(e, t) :
                          /\ messages[e][at + i].role = "tool"
                          /\ messages[e][at + i].tool_call_id = tcs[i].id
                          /\ messages[e][at + i].name = tcs[i].name
                          /\ executed[e][CallsBefore(hist[e], t) + i] = tcs[i].id
            /\ pc[e] = "chat" =>
                 /\ sent[e] = messages[e]
                 /\ \A t \in 1..ToolTurns(e) :
                      ExecutedOf(e, t) = Len(hist[e][t].tool_calls)

\* A response with two tool calls was received, both were executed, and the
\* provider has been called again since.
C7_Witness ==
    \E e \in Execs :
        /\ pc[e] = "chat"
        /\ Len(hist[e]) >= 2
        /\ Len(hist[e][1].tool_calls) >= 2

\* C8: the transcript only grows at its end while the task lives; the list
\* given to the first provider call is [system message, user message with the
\* task text], and the list given to each later call extends the list given to
\* the call before.
C8_TranscriptAppendOnly ==
    [][\A e \in Execs :
         /\ pc'[e] \notin {"done", "removed"} => IsPrefix(messages[e], messages'[e])
         /\ nchat'[e] = nchat[e] + 1 =>
              /\ sent'[e] = messages'[e]
              /\ IF nchat[e] = 0
                 THEN sent'[e] =
                        << [role |-> "system",
                            content |->
                              IF cfg[e].config.system_prompt \in {None, ""}
                              THEN [text |-> "# Subagent", task |-> cfg[e].task,
                                    workspace |-> Workspace]
                              ELSE [text |-> cfg[e].config.system_prompt]],
                           [role |-> "user", content |-> cfg[e].task] >>
                 ELSE /\ IsPrefix(sent[e], sent'[e])
                      /\ Len(sent'[e]) > Len(sent[e])
      ]_vars

\* The provider has been called a third time, with six messages or more.
C8_Witness ==
    \E e \in Execs : pc[e] = "chat" /\ nchat[e] >= 3 /\ Len(sent[e]) >= 6

\* A response of the error shape.
ErrorShaped(r) == r.finish_reason = "error" /\ Len(r.tool_calls) = 0

\* C10: when provider.chat returns an error-shaped response the loop ends
\* there: the error text is the result, the status-ok announcement is what is
\* published for it, and the provider is not called again.
C10_ErrorResponseIsFinal ==
    [][\A e \in Execs :
         /\ (Len(hist'[e]) = Len(hist[e]) + 1 /\ ErrorShaped(Last(hist'[e]))) =>
              /\ pc'[e] = "announce_ok"
              /\ ann'[e] = [result |-> Last(hist'[e]).content, status |-> "ok"]
              /\ attempts'[e] = <<"ok">>
              /\ nchat'[e] = nchat[e]
         /\ (hist[e] # <<>> /\ ErrorShaped(Last(hist[e]))) =>
              /\ pc'[e] # "chat"
              /\ nchat'[e] <= nchat[e]
              /\ Len(hist'[e]) <= Len(hist[e])
              /\ (pc[e] = "announce_ok" /\ pc'[e] = "done") =>
                   bus' = Append(bus, CompletedMsg(e, Last(hist[e]).content))
      ]_vars

\* A task whose model call failed has been announced as completed, with the
\* error text as its result.
C10_Witness ==
    \E e \in Execs :
        /\ Finished(e)
        /\ attempts[e] = <<"ok">>
        /\ Len(Announcements(e)) = 1
        /\ Announcements(e)[1].msg.content.status_text = "completed"
        /\ Announcements(e)[1].msg.content.result
             = <<"Error calling LLM: ", "connection refused">>

(***************************************************************************)
(* Transport failures.                                                     *)
(***************************************************************************)
\* A text that is not None and has at least one character.
NonEmptyText(c) == c # NoneList /\ \E i \in 1..Len(c) : c[i] # ""

\* C9: on the shared-transport path, the direct-transport path and the
\* OpenAI-SDK provider alike, when the transport raises (network failure,
\* non-2xx status) chat returns an LLMResponse with finish_reason "error",
\* non-empty content and no tool calls; and no chat call, whatever the
\* transport did, ends with an exception raised to the caller.
C9_TransportFailureIsErrorResponse ==
    /\ transport.did = "raised" =>
          /\ outcome.kind = "returned"
          /\ outcome.response.finish_reason = "error"
          /\ NonEmptyText(outcome.response.content)
          /\ outcome.response.tool_calls = <<>>
    /\ request.path # "none" => outcome.kind # "raised"

\* On the direct path the transport has failed with a network error whose
\* message is empty, and chat has returned the error response.
C9_Witness ==
    /\ request.path = "direct"
    /\ transport.did = "raised"
    /\ transport.exc.type = "TimeoutException"
    /\ outcome.kind = "returned"
    /\ outcome.response.content = <<"Error calling OpenCode: ">>

(***************************************************************************)
(* Routing.                                                                *)
(***************************************************************************)
\* A chat call has been made on a LiteLLMProvider whose credentials matched a
\* gateway.
GatewayCall ==
    /\ router.kind = "litellm"
    /\ call.made
    /\ TruthySpec(router.gateway)

\* raw_model: the model argument, or the default model.
EffectiveModel == IF TruthyList(call.model) THEN call.model ELSE router.default_model

\* The model name a gateway's own rules give: the last segment when the
\* gateway strips, behind the gateway's prefix when it has one.
UnderGatewayRules(g, sent_model, raw_model) ==
    LET base == IF g.strip_model_prefix THEN split_last(raw_model) ELSE raw_model
    IN  /\ sent_model \in {base, g.litellm_prefix \o <<"/">> \o base}
        /\ TruthyList(g.litellm_prefix) =>
               startswith(sent_model, g.litellm_prefix \o <<"/">>)
        /\ ~TruthyList(g.litellm_prefix) => sent_model = base

\* C11: when the credentials matched a gateway, the direct
\* transport is used exactly when that gateway is the dedicated-transport
\* gateway (opencode), and on the shared transport the model name is the one
\* the gateway's rules give, whatever the model name matches.
C11_GatewayDecidesTransport ==
    GatewayCall =>
        /\ request.path = "direct" <=> router.gateway.name = "opencode"
        /\ request.path = "shared" =>
               UnderGatewayRules(router.gateway, request.kwargs.model, EffectiveModel)

\* What the code does: when the credentials matched a gateway, the direct
\* transport is used exactly when that gateway is opencode or the lower-cased
\* model name starts with "opencode/", and it is then given the name without
\* that prefix; every other call goes to the shared transport with the model
\* name the gateway's rules give, never a vendor's prefix.
GatewayRulesUnlessOpencodeModel ==
    GatewayCall =>
        /\ request.path \in {"direct", "shared"}
        /\ request.path = "direct" <=>
               \/ router.gateway.name = "opencode"
               \/ startswith(lower(EffectiveModel), OpencodePrefix)
        /\ request.path = "direct" =>
               /\ ~startswith(lower(EffectiveModel), OpencodePrefix) =>
                      request.payload.model = EffectiveModel
               /\ startswith(lower(EffectiveModel), OpencodePrefix) =>
                      /\ Len(request.payload.model) = Len(EffectiveModel) - 2
                      /\ EffectiveModel =
                            SubSeq(EffectiveModel, 1, 2) \o request.payload.model
        /\ request.path = "shared" =>
               UnderGatewayRules(router.gateway, request.kwargs.model, EffectiveModel)

(***************************************************************************)
(* Parameter overrides.                                                    *)
(***************************************************************************)
\* A chat call has gone to the shared transport.
SharedCall ==
    /\ router.kind = "litellm"
    /\ call.made
    /\ request.path = "shared"

\* The override entries that apply to the request's model name, the vendor's
\* before the gateway's.
OverrideEntries ==
    LET spec == find_by_model(request.kwargs.model)
    IN  (IF TruthySpec(spec) THEN spec.model_overrides ELSE <<>>) \o
        (IF TruthySpec(router.gateway) THEN router.gateway.model_overrides ELSE <<>>)

\* The indices of the entries whose pattern is in the lower-cased model name.
MatchingEntries ==
    {i \in 1..Len(OverrideEntries) :
        contains(lower(request.kwargs.model), OverrideEntries[i].pattern)}

\* The parameters an override can set.
OverrideKeys == {"temperature", "max_tokens", "top_p"}

\* C12: on the shared transport the request carries the overrides of the
\* first matching entry, vendor entries before gateway entries, and of no
\* other entry: every other parameter is the caller's.
C12_FirstMatchingOverrideOnly ==
    SharedCall =>
        LET applied == IF MatchingEntries = {} THEN EmptyDict
                       ELSE OverrideEntries[CHOOSE i \in MatchingEntries :
                                \A j \in MatchingEntries : i <= j].overrides
        IN  /\ DOMAIN applied \subseteq DOMAIN request.kwargs
            /\ \A k \in OverrideKeys \cap DOMAIN request.kwargs :
                   IF k \in DOMAIN applied
                   THEN request.kwargs[k] = applied[k]
                   ELSE k \in DOMAIN call /\ request.kwargs[k] = call[k]

\* A vendor entry and a gateway entry both match, the caller asked for
\* another temperature, and the request carries the vendor's entry alone.
C12_Witness ==
    /\ SharedCall
    /\ router.gateway.name = "aihubmix"
    /\ Cardinality(MatchingEntries) = 3
    /\ call.temperature = 0
    /\ request.kwargs.temperature = KimiTemperature
    /\ "top_p" \notin DOMAIN request.kwargs

\* Only a gateway entry matches, and the request carries it.
C12_GatewayEntryApplied ==
    /\ SharedCall
    /\ router.gateway.name = "aihubmix"
    /\ Cardinality(MatchingEntries) = 1
    /\ "top_p" \in DOMAIN request.kwargs

(***************************************************************************)
(* Model-name prefixing.                                                   *)
(***************************************************************************)
\* The model names _resolve_model is applied to: the ones chat is asked for,
\* names that carry a gateway's or a vendor's prefix already, and a name
\* that carries the opencode prefix twice.
ResolveModels ==
    (ChatModels \ {NoneList}) \cup
    { <<"openrouter", "/", "gpt-4o">>,
      <<"openai", "/", "kimi", "-k2.5">>,
      <<"moonshot", "/", "kimi", "-k2.5">>,
      <<"anthropic", "/", "claude-opus-4-5">>,
      <<"opencode", "/", "kimi", "-k2.5">>,
      <<"OpenCode", "/", "opencode", "/", "kimi", "-k2.5">> }

\* One opencode/ prefix taken away, the name starts with opencode/ again.
RepeatedOpencodePrefix(m) ==
    /\ startswith(lower(m), OpencodePrefix)
    /\ startswith(lower(split_1(m)), OpencodePrefix)

\* C13 as stated: for every model name and every router,
\* _resolve_model(_resolve_model(m)) = _resolve_model(m).
C13_ResolveIdempotent ==
    router.kind = "litellm" =>
        \A m \in ResolveModels :
            _resolve_model(_resolve_model(m)) = _resolve_model(m)

\* C13, amended: _resolve_model(_resolve_model(m)) = _resolve_model(m) for
\* every model name and every router, except on the opencode router for a
\* name that starts with opencode/ twice, of which each application takes
\* one prefix away; no name is given a prefix twice.
C13_ResolveIdempotentUnlessRepeatedPrefix ==
    router.kind = "litellm" =>
        \A m \in ResolveModels :
            IF router.is_opencode /\ RepeatedOpencodePrefix(m)
            THEN /\ _resolve_model(m) = split_1(m)
                 /\ _resolve_model(_resolve_model(m)) = split_1(split_1(m))
            ELSE _resolve_model(_resolve_model(m)) = _resolve_model(m)

\* A chat call has gone out under a name that _resolve_model gave a prefix,
\* and resolving that name again leaves it as it is.
C13_Witness ==
    /\ SharedCall
    /\ request.kwargs.model # EffectiveModel
    /\ Len(request.kwargs.model) = Len(EffectiveModel) + 2
    /\ _resolve_model(request.kwargs.model) = request.kwargs.model

(***************************************************************************)
(* The temperature of kimi-k2.5.                                           *)
(***************************************************************************)
\* A chat call has been made on either router.
ChatCall == router.kind \in {"litellm", "openai_sdk"} /\ call.made

\* The temperature of the outgoing request.
SentTemperature ==
    IF request.path = "direct" THEN request.payload.temperature
    ELSE request.kwargs.temperature

\* C14: a chat request whose model name contains kimi-k2.5 goes out with
\* temperature 1.0, whatever the caller passed, on every path.
C14_KimiTemperatureForced ==
    ChatCall /\ contains(lower(EffectiveModel), KimiToken) =>
        SentTemperature = KimiTemperature

\* What the code does: the direct path and the OpenAI-SDK router look for
\* the token in the name they send; the shared path takes the temperature
\* from the override entries of the first vendor the name matches and of the
\* gateway, and leaves the caller's when none of them matches.
KimiTemperatureWhereLookedFor ==
    ChatCall /\ contains(lower(EffectiveModel), KimiToken) =>
        /\ request.path \in {"direct", "sdk"} =>
               SentTemperature =
                   IF request.path = "direct"
                   THEN IF contains(lower(request.payload.model), KimiToken)
                        THEN KimiTemperature ELSE call.temperature
                   ELSE IF contains(lower(request.kwargs.model), KimiToken)
                        THEN KimiTemperature ELSE call.temperature
        /\ request.path = "shared" /\ MatchingEntries = {} =>
               SentTemperature = call.temperature
        /\ request.path = "shared" /\ find_by_model(request.kwargs.model).name = "moonshot" =>
               SentTemperature = KimiTemperature

(***************************************************************************)
(* Tool-call arguments.                                                    *)
(***************************************************************************)
\* The transport returned a body whose first message carries tool calls.
ToolCallsParsed ==
    /\ transport.did = "returned"
    /\ Len(transport.body.choices) > 0
    /\ "tool_calls" \in DOMAIN transport.body.choices[1].message
    /\ TruthyRecords(transport.body.choices[1].message.tool_calls)

\* The arguments of the i-th tool call as the transport returned them.
RawArgumentsAt(i) ==
    transport.body.choices[1].message.tool_calls[i].function.arguments

\* C15: an argument string that is JSON becomes the mapping it encodes, one
\* that is not JSON becomes {"raw": string}; the parse raises nothing and
\* the arguments of every parsed tool call are a mapping.
C15_ArgumentsAlwaysMapping ==
    ToolCallsParsed =>
        /\ outcome.kind = "returned"
        /\ outcome.response.finish_reason # "error"
        /\ \A i \in 1..Len(outcome.response.tool_calls) :
               LET parsed == outcome.response.tool_calls[i].arguments
               IN  /\ parsed.type = "dict"
                   /\ RawArgumentsAt(i).type = "str" =>
                          IF IsJson(RawArgumentsAt(i).text)
                          THEN \E pr \in JsonPairs :
                                   /\ pr[1] = RawArgumentsAt(i).text
                                   /\ pr[2].type = "dict"
                                   /\ pr[2].value = parsed.value
                          ELSE parsed.value = [raw |-> RawArgumentsAt(i)]

\* What the code does: an argument string that is JSON becomes the value it
\* encodes, a mapping or not; one that is not JSON becomes {"raw": string};
\* arguments that are no string are passed on; the parse raises nothing.
ArgumentsParsedAsJsonValue ==
    ToolCallsParsed =>
        /\ outcome.kind = "returned"
        /\ outcome.response.finish_reason # "error"
        /\ Len(outcome.response.tool_calls) =
               Len(transport.body.choices[1].message.tool_calls)
        /\ \A i \in 1..Len(outcome.response.tool_calls) :
               LET parsed == outcome.response.tool_calls[i].arguments
               IN  IF RawArgumentsAt(i).type # "str"
                   THEN parsed.type = RawArgumentsAt(i).type
                   ELSE IF IsJson(RawArgumentsAt(i).text)
                   THEN json_dumps(parsed) = RawArgumentsAt(i)
                   ELSE /\ parsed.type = "dict"
                        /\ parsed.value = [raw |-> RawArgumentsAt(i)]

(***************************************************************************)
(* Construction.                                                           *)
(***************************************************************************)
\* A router is constructed with an empty or missing credential or default
\* model.
ConstructedWithoutKeyOrModel ==
    /\ nrouters' = nrouters + 1
    /\ \E api_key \in ApiKeys, api_base \in ApiBases, m \in DefaultModels :
           /\ ~TruthyList(api_key) \/ ~TruthyList(m)
           /\ \/ \E extra_headers \in ExtraHeaders :
                     LiteLLMProvider_init(api_key, api_base, m, extra_headers)
              \/ OpenAISDKProvider_init(api_key, api_base, m)

AnnouncedToOrigin(i) ==
    /\ bus[i].msg.channel = "system"
    /\ bus[i].msg.sender_id = "subagent"
    /\ bus[i].msg.chat_id = OriginChatId(bus[i].by)

\* The step is a call of the spawn tool that started a task.
ExecuteSpawned ==
    /\ nspawned' # nspawned
    /\ \E r \in ToolRequests :
           execute(r.task, r.label, r.model, r.system_prompt, r.tools)

\* C17: every announcement has channel "system", sender_id "subagent" and
\* the chat_id "<channel>:<chat_id>" of the origin in effect when its task
\* was spawned: the spawn tool hands over its context of that moment, the
\* origin of a task never changes afterwards, and set_context changes the
\* address of no announcement.
C17_AnnouncedToSpawnOrigin ==
    [][/\ \A i \in 1..Len(bus') : AnnouncedToOrigin(i)'
       /\ ExecuteSpawned =>
              cfg'[nspawned'].config.origin = [channel |-> ctx[1], chat_id |-> ctx[2]]
       /\ \A e \in Execs :
              pc[e] # "none" => cfg'[e].config.origin = cfg[e].config.origin
      ]_vars

\* An announcement is on the bus for an origin that is not the spawn tool's
\* context any more.
C17_Witness ==
    \E i \in 1..Len(bus) :
        /\ AnnouncedToOrigin(i)
        /\ bus[i].msg.chat_id # <<ctx[1], ":", ctx[2]>>

(***************************************************************************)
(* Reasoning in the place of the content.                                  *)
(***************************************************************************)
\* The direct transport returned a body with a message.
DirectParsed ==
    /\ request.path = "direct"
    /\ transport.did = "returned"
    /\ Len(transport.body.choices) > 0

\* C18: on the direct transport, a message whose content is empty or absent
\* and whose reasoning is not empty gives a response whose content is the
\* reasoning; a content that is not empty is returned as it is.
C18_ReasoningWhenNoContent ==
    DirectParsed =>
        LET message == transport.body.choices[1].message
            content == Get(message, "content", NoneList)
            reasoning == Get(message, "reasoning", NoneList)
        IN  /\ outcome.kind = "returned"
            /\ TruthyList(content) => outcome.response.content = content
            /\ ~TruthyList(content) /\ TruthyList(reasoning) =>
                   outcome.response.content = reasoning

\* A message without a content key and with a reasoning has been parsed.
C18_Witness ==
    /\ DirectParsed
    /\ "content" \notin DOMAIN transport.body.choices[1].message
    /\ outcome.kind = "returned"
    /\ outcome.response.content = <<"because">>

\* A message with a content and a reasoning has been parsed.
C18_ContentKept ==
    /\ DirectParsed
    /\ "reasoning" \in DOMAIN transport.body.choices[1].message
    /\ outcome.kind = "returned"
    /\ outcome.response.content = <<"hello">>

(***************************************************************************)
(* The turn without tool calls.                                            *)
(***************************************************************************)
\* The last response task e received carries no tool calls.
FinalTurn(e) == hist[e] # <<>> /\ ~has_tool_calls(Last(hist[e]))

\* After a step, task e has made no model call beyond its last response and
\* executes no tool; when the step is the one that received that response,
\* `result` is announced with status ok.
StopsAndAnnounces(e, result) ==
    /\ nchat'[e] = Len(hist'[e])
    /\ pc'[e] \notin {"chat", "tool"}
    /\ hist'[e] # hist[e] =>
           /\ pc'[e] = "announce_ok"
           /\ ann'[e] = [result |-> result, status |-> "ok"]

\* C19 as stated: a response without tool calls ends the loop at that turn,
\* and its content is the result announced, whatever the content is.
C19_ContentIsAnnounced ==
    [][\A e \in Execs :
           FinalTurn(e)' => StopsAndAnnounces(e, Last(hist'[e]).content)]_vars

\* C19, amended: a response without tool calls ends the loop at that turn;
\* the result announced is its content when that is a text, empty or not,
\* and the placeholder when the content is null.
C19_ContentOrPlaceholderIsAnnounced ==
    [][\A e \in Execs :
           FinalTurn(e)' =>
               StopsAndAnnounces(e, IF Last(hist'[e]).content = NoneList
                                    THEN Placeholder
                                    ELSE Last(hist'[e]).content)]_vars

\* A response with null content and no tool calls has ended the loop, and the
\* placeholder is being announced.
C19_Witness ==
    \E e \in Execs :
        /\ FinalTurn(e)
        /\ Last(hist[e]).content = NoneList
        /\ pc[e] = "announce_ok"
        /\ ann[e] = [result |-> Placeholder, status |-> "ok"]

\* A response with empty content and no tool calls has ended the loop after a
\* turn of tool calls, and the empty text is being announced.
C19_EmptyTextAnnounced ==
    \E e \in Execs :
        /\ FinalTurn(e)
        /\ Len(hist[e]) > 1
        /\ pc[e] = "announce_ok"
        /\ ann[e] = [result |-> <<>>, status |-> "ok"]

(***************************************************************************)
(* A tool that raises.                                                     *)
(***************************************************************************)
\* The announcement of task e is the one the handler makes of a tool's
\* exception.
ToolFailureAnnounced(e) ==
    ann[e] = [result |-> <<"Error: ">> \o str_exc("tool"), status |-> "error"]

\* The step is one of task e while it awaits a tool, and the tool's call has
\* not been completed by it: the tool raised.
ToolRaised(e) ==
    /\ pc[e] = "tool"
    /\ executed'[e] = executed[e]
    /\ <<pc[e], tcidx[e], messages[e], ann[e]>>' # <<pc[e], tcidx[e], messages[e], ann[e]>>

\* C20: when a tool execution raises, the failure is announced at once with
\* status error and the text of the exception, and no tool call is executed
\* and no provider call made in that step; a task that announces a failure
\* goes on to its end only, never back to the provider or to a tool; and the
\* message that reaches the bus says "failed" and carries that text.
C20_ToolFailureStopsLoop ==
    [][\A e \in Execs :
           /\ ToolRaised(e) =>
                  /\ pc'[e] = "announce_error"
                  /\ ToolFailureAnnounced(e)'
                  /\ messages'[e] = messages[e]
                  /\ attempts'[e] = Append(attempts[e], "error")
                  /\ executed'[e] = executed[e]
                  /\ nchat'[e] = nchat[e]
           /\ pc[e] = "announce_error" => pc'[e] \in {"announce_error", "done"}
           /\ pc[e] \in {"done", "removed"} => pc'[e] \in {"done", "removed"}
           /\ (/\ pc[e] = "announce_error"
               /\ ToolFailureAnnounced(e)
               /\ Len(bus') > Len(bus)
               /\ Last(bus').by = e) =>
                  /\ Last(bus').msg.content.status_text = "failed"
                  /\ Last(bus').msg.content.result = ExcText("tool")
      ]_vars

\* The first of two tool calls raised: the second has not been executed, the
\* provider has been called once, and the failure is being announced.
C20_Witness ==
    \E e \in Execs :
        /\ pc[e] = "announce_error"
        /\ ToolFailureAnnounced(e)
        /\ Len(hist[e]) = 1
        /\ Len(hist[e][1].tool_calls) = 2
        /\ executed[e] = <<>>
        /\ nchat[e] = 1

\* The failure of a tool is on the bus.
C20_FailureOnBus ==
    \E i \in 1..Len(bus) :
        /\ bus[i].msg.content.status_text = "failed"
        /\ bus[i].msg.content.result = ExcText("tool")

(***************************************************************************)
(* Isolation of the tasks.                                                 *)
(***************************************************************************)
\* The step is one of task e: its position, its transcript or its
\* announcement changes.
Moved(e) ==
    /\ pc[e] # "none"
    /\ <<pc[e], messages[e], tcidx[e], ann[e], attempts[e]>>' #
           <<pc[e], messages[e], tcidx[e], ann[e], attempts[e]>>

\* Task o is registered in the running-tasks map under its identifier.
Registered(o) ==
    /\ cfg[o].task_id \in DOMAIN running
    /\ running[cfg[o].task_id] = o

\* The step leaves what belongs to task o as it is: its position, transcript,
\* registry, result, announcement and what it has put on the bus.
Untouched(o) ==
    /\ <<pc[o], messages[o], registry[o], final_result[o], ann[o], hist[o]>>' =
           <<pc[o], messages[o], registry[o], final_result[o], ann[o], hist[o]>>
    /\ Announcements(o)' = Announcements(o)

\* C21: no exception leaves a background task, and a step of one task, the
\* handling of an exception included, changes nothing of another task in
\* flight (transcript, result, announcement, entry in the running-tasks map)
\* and nothing of what the manager needs to accept a spawn.
C21_ExceptionsIsolated ==
    [][\A e \in Execs :
           /\ ~escaped'[e]
           /\ Moved(e) =>
                  /\ nspawned' = nspawned
                  /\ \A o \in Execs \ {e} :
                         InFlight(o) =>
                             /\ Untouched(o)
                             /\ Registered(o) => Registered(o)'
      ]_vars

\* What the code does: an exception leaves the background task only when the
\* publish of the status-error announcement raises; a step of one task
\* changes nothing of another task in flight, except that its done callback
\* removes the map entry of a task that was given the same identifier; and
\* the manager accepts a spawn whatever the tasks have done.
IsolatedButForEscapeAndSharedId ==
    [][\A e \in Execs :
           /\ escaped'[e] /\ ~escaped[e] =>
                  pc[e] = "announce_error" /\ pc'[e] = "done"
           /\ Moved(e) =>
                  /\ nspawned' = nspawned
                  /\ \A o \in Execs \ {e} :
                         InFlight(o) =>
                             /\ Untouched(o)
                             /\ (Registered(o) /\ cfg[o].task_id # cfg[e].task_id)
                                    => Registered(o)'
      ]_vars

(***************************************************************************)
(* Termination.                                                            *)
(***************************************************************************)
\* Task e has ended, its callback has run, and its identifier is not a key
\* of the running-tasks map.
Removed(e) == pc[e] = "removed" /\ cfg[e].task_id \notin DOMAIN running

\* C22: every spawned task eventually ends with its result on the bus and its
\* identifier removed from the running-tasks map.
C22_EveryTaskAnnouncedAndRemoved ==
    \A e \in Execs :
        (pc[e] = "created") ~> (Removed(e) /\ Len(Announcements(e)) = 1)

\* What the code does: every spawned task eventually ends and its identifier
\* is removed, with its result on the bus unless the publish of the
\* status-error announcement raised.
EveryTaskEndsAndIsRemoved ==
    \A e \in Execs :
        (pc[e] = "created") ~>
            (Removed(e) /\ Len(Announcements(e)) = (IF escaped[e] THEN 0 ELSE 1))

(***************************************************************************)
(* Who owns what.                                                          *)
(***************************************************************************)
\* Task e is inside its loop: it has a transcript and a registry and calls
\* the provider.
InLoop(e) == pc[e] \in {"chat", "tool"}

Constructed == nrouters' = nrouters + 1 /\ router'.kind = "litellm"

\* What a template of env_extras stands for.
Resolved(template, api_key, effective_base) ==
    CASE template = <<"{api_base}">> -> effective_base
      [] template = <<"{api_key}">> -> api_key
      [] OTHER -> template

\* C24: after a construction with a gateway, the gateway's variable is the
\* router's credential and every other variable is as before; without a
\* gateway and with a vendor matching the default model, the vendor's
\* variable and its auxiliary variables are written where they were unset
\* and every variable that was set is as before; with neither, the
\* environment is as before.
C24_EnvironmentAfterConstruction ==
    [][Constructed =>
        LET g == router'.gateway
            spec == find_by_model(router'.default_model)
            key == router'.api_key
            base == IF TruthyList(router'.api_base) THEN router'.api_base
                    ELSE spec.default_api_base
        IN  IF TruthySpec(g)
            THEN /\ DOMAIN environ' = DOMAIN environ \cup {g.env_key}
                 /\ environ'[g.env_key] = key
                 /\ \A v \in DOMAIN environ \ {g.env_key} : environ'[v] = environ[v]
            ELSE IF TruthySpec(spec)
            THEN /\ DOMAIN environ' =
                        DOMAIN environ \cup {spec.env_key}
                            \cup {spec.env_extras[i][1] : i \in 1..Len(spec.env_extras)}
                 /\ \A v \in DOMAIN environ : environ'[v] = environ[v]
                 /\ spec.env_key \notin DOMAIN environ => environ'[spec.env_key] = key
                 /\ \A i \in 1..Len(spec.env_extras) :
                        spec.env_extras[i][1] \notin DOMAIN environ =>
                            environ'[spec.env_extras[i][1]] =
                                Resolved(spec.env_extras[i][2], key, base)
            ELSE environ' = environ
      ]_vars

\* A router for a moonshot model has been constructed where the vendor's
\* credential was set already: it is still the old one, and the auxiliary
\* variable, which was unset, has been written.
C24_Witness ==
    /\ router.kind = "litellm"
    /\ ~TruthySpec(router.gateway)
    /\ "MOONSHOT_API_KEY" \in DOMAIN environ
    /\ environ["MOONSHOT_API_KEY"] = <<"old">>
    /\ router.api_key # <<"old">>
    /\ "MOONSHOT_API_BASE" \in DOMAIN environ
    /\ find_by_model(router.default_model).name = "moonshot"

\* A router with a gateway has been constructed where the gateway's variable
\* was set already: it is the router's credential now.
C24_GatewayOverwrites ==
    /\ router.kind = "litellm"
    /\ TruthySpec(router.gateway)
    /\ router.gateway.name = "openrouter"
    /\ environ["OPENROUTER_API_KEY"] = router.api_key
    /\ "MOONSHOT_API_KEY" \in DOMAIN environ

(***************************************************************************)
(* Two routers, one variable.                                              *)
(***************************************************************************)
\* The variable a router's credential goes to: its gateway's, or else the one
\* of the vendor its default model matches; None when it has neither.
CredentialVariable(r) ==
    IF TruthySpec(r.gateway) THEN r.gateway.env_key
    ELSE find_by_model(r.default_model).env_key

\* The step constructs a second router after a first one, for the same
\* variable and with another credential.
SecondRouterSameProvider ==
    /\ router.kind = "litellm"
    /\ Constructed
    /\ TruthySpec(router.gateway) = TruthySpec(router'.gateway)
    /\ TruthySpec(router.gateway) \/ TruthySpec(find_by_model(router.default_model))
    /\ CredentialVariable(router) = CredentialVariable(router')
    /\ router.api_key # router'.api_key

\* C25 as stated: after the second construction the variable holds the
\* credential of the second router.
C25_LastWriterWins ==
    [][SecondRouterSameProvider =>
          environ'[CredentialVariable(router')] = router'.api_key]_vars

\* C25, amended: after the second construction a gateway's variable holds the
\* credential of the second router; a vendor's variable holds what it held
\* before, which is not the credential of the second router.
C25_LastWriterWinsForGateways ==
    [][SecondRouterSameProvider =>
          IF TruthySpec(router'.gateway)
          THEN environ'[CredentialVariable(router')] = router'.api_key
          ELSE /\ CredentialVariable(router) \in DOMAIN environ
               /\ environ'[CredentialVariable(router')] =
                      environ[CredentialVariable(router)]
      ]_vars

\* Two routers for moonshot models were constructed with credentials k2 and
\* then k3, from an empty environment: the variable holds k2.
C25_Witness ==
    /\ nrouters = 2
    /\ router.kind = "litellm"
    /\ ~TruthySpec(router.gateway)
    /\ router.api_key = <<"k3">>
    /\ CredentialVariable(router) = "MOONSHOT_API_KEY"
    /\ environ["MOONSHOT_API_KEY"] = <<"k2">>

\* Two routers for the aihubmix gateway were constructed with different
\* credentials: the variable holds the second one.
C25_GatewayWitness ==
    /\ nrouters = 2
    /\ router.kind = "litellm"
    /\ TruthySpec(router.gateway)
    /\ router.gateway.name = "aihubmix"
    /\ router.api_key = <<"k3">>
    /\ environ["OPENAI_API_KEY"] = <<"k3">>

(***************************************************************************)
(* How often a task publishes.                                             *)
(***************************************************************************)
\* Task e's pending publish raises in this step.
PublishRaised(e) ==
    /\ pc[e] \in {"announce_ok", "announce_error"}
    /\ Moved(e)
    /\ Announcements(e)' = Announcements(e)

\* C26: a task invokes the bus publish at most twice, the second time only
\* in the step where its first, status-ok, publish raised, and then with
\* status error; a status-error publish that raises is not tried again: its
\* exception leaves the task, which ends.
C26_PublishAtMostTwice ==
    /\ [](\A e \in Execs :
             attempts[e] \in {<<>>, <<"ok">>, <<"error">>, <<"ok", "error">>})
    /\ [][\A e \in Execs :
             /\ (Len(attempts[e]) = 1 /\ Len(attempts'[e]) = 2)
                    => (pc[e] = "announce_ok" /\ PublishRaised(e))
             /\ (pc[e] = "announce_error" /\ PublishRaised(e))
                    => /\ attempts'[e] = attempts[e]
                       /\ escaped'[e]
                       /\ pc'[e] = "done"]_vars

\* A task whose two publishes both raised: the exception has left it.
C26_Witness ==
    \E e \in Execs :
        /\ attempts[e] = <<"ok", "error">>
        /\ escaped[e]
        /\ Announcements(e) = <<>>

(***************************************************************************)
(* The registry built for a task.                                          *)
(***************************************************************************)
\* The allowlist task e was spawned with.
Allowlist(e) == cfg[e].config.tools

\* C27: the registry of a task holds exactly the built-in tools named in its
\* allowlist when the allowlist is non-empty (other names are dropped), and
\* all seven built-in tools when the allowlist is absent or empty.
C27_RegistryIsAllowlistedBuiltins ==
    /\ Cardinality(Range(all_tools)) = 7
    /\ \A e \in Execs :
           InLoop(e) =>
               IF Allowlist(e) = NoneList \/ Len(Allowlist(e)) = 0
               THEN registry[e] = Range(all_tools)
               ELSE /\ registry[e] \subseteq Range(all_tools)
                    /\ \A n \in Range(all_tools) :
                           n \in registry[e] <=> n \in Range(Allowlist(e))

\* A task spawned with a name that is no built-in tool runs with the
\* built-in one it named, and only that.
C27_Witness ==
    \E e \in Execs :
        /\ InLoop(e)
        /\ Allowlist(e) = <<"read_file", "teleport">>
        /\ registry[e] = {"read_file"}

\* A task spawned with an empty allowlist runs with all seven.
C27_EmptyAllowlist ==
    \E e \in Execs :
        /\ InLoop(e)
        /\ Allowlist(e) = <<>>
        /\ Cardinality(registry[e]) = 7

(***************************************************************************)
(* A spawn request naming an unknown tool.                                 *)
(***************************************************************************)
\* The list names a tool outside the available ones.
NamesUnknownTool(tools) ==
    /\ tools # NoneList
    /\ \E i \in 1..Len(tools) : tools[i] \notin Range(AVAILABLE_SUBAGENT_TOOLS)

\* The step is a call of SpawnTool.execute with such a list.
ExecuteWithUnknownTool ==
    \E r \in ToolRequests :
        /\ NamesUnknownTool(r.tools)
        /\ execute(r.task, r.label, r.model, r.system_prompt, r.tools)

\* C28: SpawnTool.execute with a tools list naming a tool outside the
\* available ones returns an error naming the unknown tools and spawns
\* nothing: no task is created, the running-tasks map, the tasks, their model
\* calls and the bus stay as they are; and whatever is ever called or
\* announced belongs to a task that a spawn created.
C28_UnknownToolSpawnsNothing ==
    /\ [][ExecuteWithUnknownTool =>
             /\ ack'.kind = "invalid_tools"
             /\ ack'.invalid # <<>>
             /\ \A i \in 1..Len(ack'.invalid) :
                    ack'.invalid[i] \notin Range(AVAILABLE_SUBAGENT_TOOLS)
             /\ running' = running
             /\ nspawned' = nspawned
             /\ pc' = pc
             /\ cfg' = cfg
             /\ nchat' = nchat
             /\ attempts' = attempts
             /\ bus' = bus]_vars
    /\ [](/\ \A e \in Execs : e > nspawned => pc[e] = "none" /\ nchat[e] = 0
          /\ \A i \in 1..Len(bus) : bus[i].by \in 1..nspawned
          /\ \A id \in DOMAIN running : running[id] \in 1..nspawned)

\* The spawn tool has refused a request naming "teleport" while a task
\* spawned before is running: that task is the only one there is.
C28_Witness ==
    /\ ack.kind = "invalid_tools"
    /\ ack.invalid = <<"teleport">>
    /\ nspawned = 1
    /\ pc[1] = "chat"
    /\ pc[2] = "none"

(***************************************************************************)
(* The secrets tool as a key-value map.                                    *)
(***************************************************************************)
\* The keys a secret can be stored under.
ProperKeys == {k \in SecretKeys : TruthyStr(k)}
\* What get(k) returns in the current state.
GetNow(k) == _get(secrets_json, k).reply
NotFound(k) == Replied(<<"Secret '", k, "' not found">>)
\* The call of this step is a store or a delete of k.
WritesKey(k) == asked'.action \in {"store", "delete"} /\ asked'.key = k
\* The call of this step was rejected: an argument was missing, the key was
\* absent, or the action is unknown.
Rejected ==
    /\ reply'.kind = "returned"
    /\ \/ reply'.text[1] \in {"Error: key and value are required",
                              "Error: key is required", "Unknown action: "}
       \/ asked'.action \in {"get", "delete"} /\ reply' = NotFound(asked'.key)

\* C29: the tool is a key-value map.  After a successful store(k, v), get(k)
\* returns v; after a successful delete(k), get(k) reports not found; a call
\* that is not a store or delete of k leaves what get(k) returns as it is
\* (so the value lasts until the next store or delete of k, and a store or
\* delete of another key does not touch it); a rejected call leaves the
\* stored secrets as they are.
C29_KeyValueMap ==
    [][\A k \in ProperKeys :
          /\ (/\ asked'.action = "store" /\ asked'.key = k
              /\ reply' = Replied(<<"Secret '", k, "' stored successfully">>))
                 => GetNow(k)' = Replied(<<asked'.value>>)
          /\ (/\ asked'.action = "delete" /\ asked'.key = k
              /\ reply' = Replied(<<"Secret '", k, "' deleted">>))
                 => GetNow(k)' = NotFound(k)
          /\ ~WritesKey(k) => GetNow(k)' = GetNow(k)
          /\ Rejected => _load(secrets_json)' = _load(secrets_json)]_vars

\* What the code does guarantee: the same, for the calls that return.  A
\* store that raises while it writes the file leaves no secret behind.
KeyValueMapWhileCallsReturn ==
    [][\A k \in ProperKeys :
          /\ (/\ asked'.action = "store" /\ asked'.key = k
              /\ reply' = Replied(<<"Secret '", k, "' stored successfully">>))
                 => GetNow(k)' = Replied(<<asked'.value>>)
          /\ (/\ asked'.action = "delete" /\ asked'.key = k
              /\ reply' = Replied(<<"Secret '", k, "' deleted">>))
                 => GetNow(k)' = NotFound(k)
          /\ (~WritesKey(k) /\ reply'.kind = "returned") => GetNow(k)' = GetNow(k)
          /\ Rejected => _load(secrets_json)' = _load(secrets_json)
          /\ reply'.kind = "raised" => _load(secrets_json)' = <<>>]_vars

\* Two secrets are stored, and the tool has just refused a call.
C29_TwoSecretsKept ==
    /\ GetNow("ETH_WALLET_KEY") = Replied(<<"v1">>)
    /\ GetNow("API_KEY") = Replied(<<"v2">>)
    /\ reply = Replied(<<"Unknown action: ", "rotate">>)

\* A store has raised, and a secret stored before it is gone.
C29_SecretLost ==
    /\ reply.kind = "raised"
    /\ asked.action = "store"
    /\ asked.key = "API_KEY"
    /\ GetNow("ETH_WALLET_KEY") = NotFound("ETH_WALLET_KEY")

====
